---- MODULE Spec2Model ----
(***************************************************************************)
(* A model of winedump's PE analyser (tools/winedump/pe.c).                *)
(*                                                                         *)
(* The image is a sparse map from the file offset of a field to the value  *)
(* of that field (mem); a pointer into the image is a file offset, and the *)
(* null pointer is NULL.  DWORD and unsigned long keep modular arithmetic, *)
(* at a reduced width (DwordMod, ulong_mod) because the checker's integers *)
(* are 32 bits wide: a DWORD is 15 bits wide, an unsigned long is either    *)
(* as wide as a DWORD (ILP32, LLP64) or twice as wide (LP64).              *)
(*                                                                         *)
(* The last part models the input method of the Mac driver                 *)
(* (dlls/winemac.drv/ime.c): the contexts selected, the composition state  *)
(* of each input context, and the messages generated for it.               *)
(***************************************************************************)
EXTENDS Integers, Sequences, FiniteSets, TLC

VARIABLES
    ulong_mod,          \* 2^(width of unsigned long) of the build
    dump_total_len,     \* length of the mapped file
    mem,                \* the file: offset of a field -> its value
    strs,               \* the file: offset of a NUL-terminated string -> its characters
    PE_nt_headers,      \* pe.c:48
    call,               \* the last call of a function under test, with its result
    module,             \* globals.forward_dll, or OUTPUT_UC_DLL_NAME without one
    dll_symbols,        \* pe.c:1517: the entries before the terminator
    dll_current_symbol, \* pe.c:1518: 0 is NULL, k points at entry k of dll_symbols
    pc,                 \* "run", or how the process ended
    out,                \* the lines printed
    hist,               \* the ordinals dll_next_symbol returned since the last dll_open
    opens,              \* the number of dll_open calls so far
    globals,            \* the command line: dumpsect ("" without -j), do_dumpheader
    fault,              \* undefined behaviour so far: <<decoder, kind>>
    fails,              \* resolutions that failed inside decoders: <<decoder, what, reported>>
    ref,                \* the report of the run before this one, if there was one
    hSelectedFrom,      \* ime.c:67: the entries of the array
    hSelectedCount,     \* ime.c:68
    focus,              \* ImmGetContext(GetFocus()): the focus window's context, 0 is NULL
    imc,                \* the INPUTCONTEXT of each context: fOpen, hCompStr, hPrivate
    sent,               \* the messages generated for each context, in order
    selected,           \* the contexts selected and not since deselected or cleared
    lpdwTransKey        \* the translation buffer of the last ImeToAsciiEx: size, messages

imgvars == <<ulong_mod, dump_total_len, mem, strs>>
symvars == <<module, dll_symbols, dll_current_symbol, hist, opens>>
dumpvars == <<globals, fault, fails, ref>>
imevars == <<hSelectedFrom, hSelectedCount, focus, imc, sent, selected, lpdwTransKey>>
vars == <<ulong_mod, dump_total_len, mem, strs, PE_nt_headers, call,
          module, dll_symbols, dll_current_symbol, pc, out, hist, opens,
          globals, fault, fails, ref,
          hSelectedFrom, hSelectedCount, focus, imc, sent, selected, lpdwTransKey>>

NULL == -1

\* 2^(width of a DWORD): 15 bits in the model, 32 in the program
DwordMod == 2 ^ 15

\* the two widths of unsigned long: that of a DWORD, and twice that
ULongMods == {DwordMod, DwordMod * DwordMod}

DWORD(x) == x % DwordMod
ULONG(x) == x % ulong_mod

\* a LONG converted to unsigned long: sign-extended
LongToULong(x) == IF x >= DwordMod \div 2 THEN ulong_mod - (DwordMod - x) ELSE x

\* the field of the file that starts at off (bytes that no field names are 0)
Rd(off) == IF off \in DOMAIN mem THEN mem[off] ELSE 0

RdStr(off) == IF off \in DOMAIN strs THEN strs[off] ELSE <<>>

(***************************************************************************)
(* Image Accessor (dump.c, not among the sources: from the specification,  *)
(* section 4.1): absent if offset + length exceeds the buffer or overflows.*)
(***************************************************************************)
PRD_wrap(prd, len) ==
    IF ULONG(prd + len) > dump_total_len THEN NULL ELSE prd

PRD(prd, len) ==
    IF prd + len >= ulong_mod \/ prd + len > dump_total_len THEN NULL ELSE prd

(***************************************************************************)
(* Header fields                                                           *)
(***************************************************************************)
e_lfanew(dos) == LongToULong(Rd(dos + 60))

NumberOfSections == Rd(PE_nt_headers + 6)
SizeOfOptionalHeader == Rd(PE_nt_headers + 20)
OptionalHeader == PE_nt_headers + 24
Magic == Rd(OptionalHeader)

IMAGE_NT_OPTIONAL_HDR32_MAGIC == 267
IMAGE_NT_OPTIONAL_HDR64_MAGIC == 523

IMAGE_FIRST_SECTION == PE_nt_headers + 24 + SizeOfOptionalHeader

SectVirtualAddress(i) == Rd(IMAGE_FIRST_SECTION + 40 * i + 12)
SectSizeOfRawData(i) == Rd(IMAGE_FIRST_SECTION + 40 * i + 16)
SectPointerToRawData(i) == Rd(IMAGE_FIRST_SECTION + 40 * i + 20)

\* IMAGE_OPTIONAL_HEADER32 and IMAGE_OPTIONAL_HEADER64 laid over the same bytes
NumberOfRvaAndSizes32 == Rd(OptionalHeader + 92)
NumberOfRvaAndSizes64 == Rd(OptionalHeader + 108)
DataDirectory32(idx) ==
    [VirtualAddress |-> Rd(OptionalHeader + 96 + 8 * idx),
     Size |-> Rd(OptionalHeader + 96 + 8 * idx + 4)]
DataDirectory64(idx) ==
    [VirtualAddress |-> Rd(OptionalHeader + 112 + 8 * idx),
     Size |-> Rd(OptionalHeader + 112 + 8 * idx + 4)]

(***************************************************************************)
(* RVA (pe.c:69)                                                           *)
(***************************************************************************)
SectionMatches(i, rva, len) ==
    /\ SectVirtualAddress(i) <= rva
    /\ ULONG(rva + len) <= DWORD(SectVirtualAddress(i) + SectSizeOfRawData(i))

SectionOffset(i, rva) ==
    ULONG(SectPointerToRawData(i) + rva - SectVirtualAddress(i))

RECURSIVE RVA_up(_, _, _)
RVA_up(i, rva, len) ==
    IF i >= NumberOfSections THEN NULL
    ELSE IF SectionMatches(i, rva, len) THEN PRD(SectionOffset(i, rva), len)
    ELSE RVA_up(i + 1, rva, len)

RECURSIVE RVA_scan(_, _, _)
RVA_scan(i, rva, len) ==
    IF i < 0 THEN NULL
    ELSE IF SectionMatches(i, rva, len) THEN PRD(SectionOffset(i, rva), len)
    ELSE RVA_scan(i - 1, rva, len)

RVA_lowest(rva, len) ==
    IF rva = 0 THEN NULL ELSE RVA_up(0, rva, len)

RVA_nozero(rva, len) == RVA_scan(NumberOfSections - 1, rva, len)

RVA(rva, len) ==
    IF rva = 0 THEN NULL ELSE RVA_scan(NumberOfSections - 1, rva, len)

(***************************************************************************)
(* get_nt_header (pe.c:90)                                                 *)
(***************************************************************************)
get_nt_header_short ==
    LET dos == PRD(0, 64)
    IN  IF dos = NULL THEN NULL ELSE PRD(e_lfanew(dos), 4)

get_nt_header ==
    LET dos == PRD(0, 64)
    IN  IF dos = NULL THEN NULL ELSE PRD(e_lfanew(dos), 4 + 20)

(***************************************************************************)
(* get_dir_and_size (pe.c:110): <<pointer, size>>; size is NULL when the   *)
(* function leaves *size alone                                             *)
(***************************************************************************)
get_dir_and_size_32only(idx) ==
    IF idx >= NumberOfRvaAndSizes32 THEN <<NULL, NULL>>
    ELSE <<RVA(DataDirectory32(idx).VirtualAddress, DataDirectory32(idx).Size),
           DataDirectory32(idx).Size>>

get_dir_and_size(idx) ==
    IF Magic = IMAGE_NT_OPTIONAL_HDR64_MAGIC
    THEN IF idx >= NumberOfRvaAndSizes64 THEN <<NULL, NULL>>
         ELSE <<RVA(DataDirectory64(idx).VirtualAddress, DataDirectory64(idx).Size),
                DataDirectory64(idx).Size>>
    ELSE IF idx >= NumberOfRvaAndSizes32 THEN <<NULL, NULL>>
         ELSE <<RVA(DataDirectory32(idx).VirtualAddress, DataDirectory32(idx).Size),
                DataDirectory32(idx).Size>>

get_dir(idx) == get_dir_and_size(idx)[1]

(***************************************************************************)
(* Images                                                                  *)
(***************************************************************************)
\* a file from a set of <<offset, value>> pairs
Cells(S) == [o \in {p[1] : p \in S} |-> (CHOOSE p \in S : p[1] = o)[2]]

NoCall == [fn |-> "none", a |-> 0, b |-> 0, ret |-> NULL]

\* the input contexts of the process, and one as imm32 creates it: closed, with a
\* blank composition string and zeroed private data
Contexts == {1, 2}
BlankCompStr == [CompStr |-> <<>>, ResultStr |-> <<>>]
NewContext ==
    [fOpen |-> FALSE,
     hCompStr |-> BlankCompStr,
     hPrivate |-> [bInComposition |-> FALSE, bInternalState |-> FALSE, repeat |-> 0]]
NoTransKey == [size |-> 0, msgs |-> <<>>]

\* the input method as the process starts: nothing selected, nothing generated
NoIme ==
    /\ hSelectedFrom = <<>>
    /\ hSelectedCount = 0
    /\ focus = 0
    /\ imc = [h \in Contexts |-> NewContext]
    /\ sent = [h \in Contexts |-> <<>>]
    /\ selected = {}
    /\ lpdwTransKey = NoTransKey

\* no dump has run
NoDump ==
    /\ globals = [dumpsect |-> "", do_dumpheader |-> FALSE]
    /\ fault = {}
    /\ fails = {}
    /\ ref = [done |-> FALSE, out |-> <<>>]
    /\ NoIme

\* the parts of the state a specification does not use
Idle ==
    /\ module = <<>>
    /\ dll_symbols = <<>>
    /\ dll_current_symbol = 0
    /\ pc = "run"
    /\ out = <<>>
    /\ hist = <<>>
    /\ opens = 0
    /\ NoDump

(***************************************************************************)
(* The accessor and the header locator on their own                        *)
(***************************************************************************)
FileLens == {0, 63, 64, 87, 88, 128}
LfanewValues == {0, 64, 65, 104, 128, DwordMod - 8, DwordMod - 24}
PrdOffsets == {0, 1, 60, 64, 104, 128, ulong_mod - 24, ulong_mod - 1}
PrdLengths == {0, 1, 4, 24, 64, 129, ulong_mod - 1}

InitPRD ==
    /\ ulong_mod \in ULongMods
    /\ dump_total_len \in FileLens
    /\ mem \in {Cells({<<60, e>>}) : e \in LfanewValues}
    /\ strs = <<>>
    /\ PE_nt_headers = NULL
    /\ call = NoCall
    /\ Idle

CallPRD(off, len) ==
    /\ call' = [fn |-> "PRD", a |-> off, b |-> len, ret |-> PRD(off, len)]
    /\ UNCHANGED <<imgvars, PE_nt_headers, symvars, dumpvars, imevars, pc, out>>

CallGetNtHeader ==
    /\ PE_nt_headers' = get_nt_header
    /\ call' = [fn |-> "get_nt_header", a |-> 0, b |-> 0, ret |-> get_nt_header]
    /\ UNCHANGED <<imgvars, symvars, dumpvars, imevars, pc, out>>

NextPRD ==
    \/ \E off \in PrdOffsets, len \in PrdLengths : CallPRD(off, len)
    \/ CallGetNtHeader

SpecPRD == InitPRD /\ [][NextPRD]_vars

\* C1: read(offset, length) returns a slice of exactly `length` bytes starting at
\* `offset` when offset + length <= buffer length, and the absent marker when the
\* sum exceeds the buffer or overflows; the header locator's two reads follow it.
InvC1 ==
    /\ call.fn = "PRD" =>
          /\ call.a + call.b <= dump_total_len => call.ret = call.a
          /\ call.a + call.b > dump_total_len => call.ret = NULL
          /\ call.a + call.b >= ulong_mod => call.ret = NULL
    /\ call.fn = "get_nt_header" =>
          IF dump_total_len >= 64 /\ e_lfanew(0) + 24 <= dump_total_len
          THEN call.ret = e_lfanew(0)
          ELSE call.ret = NULL

WitnessC1 ==
    /\ call.fn = "PRD"
    /\ call.a > 0 /\ call.b > 0
    /\ call.ret = call.a
    /\ call.a + call.b = dump_total_len

(***************************************************************************)
(* Address translation and directory lookup on their own                   *)
(***************************************************************************)
MaxSections == 3

\* section headers to draw from: <<VirtualAddress, SizeOfRawData, PointerToRawData>>
SectionChoices ==
    { <<4096, 512, 1024>>,              \* a plain section
      <<4096, 256, 2048>>,              \* the same address, shorter, elsewhere in the file
      <<0, 8192, 0>>,                   \* virtual address 0, covering all the others
      <<4352, 512, 3968>>,              \* overlaps the first, runs past the short file
      <<DwordMod - 256, 512, 512>> }    \* VirtualAddress + SizeOfRawData wraps

SectionTables == UNION {[0 .. n - 1 -> SectionChoices] : n \in 0 .. MaxSections}

\* the image's headers: the signature header at 64, nrva32 at the 32-bit layout's
\* NumberOfRvaAndSizes, d108 at offset 108 of the optional header (the 64-bit layout's
\* NumberOfRvaAndSizes, the 32-bit layout's DataDirectory[1].Size), directory dwords
\* that resolve through the plain section
HeaderCells(magic, nrva32, d108, soh, nsec) ==
    {<<60, 64>>, <<64 + 6, nsec>>, <<64 + 20, soh>>, <<88, magic>>,
     <<88 + 92, nrva32>>, <<88 + 108, d108>>}
    \cup {<<88 + 96 + 4 * k, IF k % 2 = 0 THEN 4096 + 8 * k ELSE 4 * k>> :
            k \in (0 .. 39) \ {3}}

SectionCells(soh, tbl) ==
    UNION {{<<88 + soh + 40 * i + 12, tbl[i][1]>>,
            <<88 + soh + 40 * i + 16, tbl[i][2]>>,
            <<88 + soh + 40 * i + 20, tbl[i][3]>>} : i \in DOMAIN tbl}

RvaImages ==
    {Cells(HeaderCells(m[1], n32, d108, m[2], Cardinality(DOMAIN tbl))
           \cup SectionCells(m[2], tbl)) :
        m \in {<<IMAGE_NT_OPTIONAL_HDR32_MAGIC, 224>>, <<IMAGE_NT_OPTIONAL_HDR64_MAGIC, 240>>},
        n32 \in {0, 16}, d108 \in {2, 18}, tbl \in SectionTables}

RvaAddresses == {0, 16, 4096, 4100, 4352, 4600, DwordMod - 256, DwordMod - 4}
RvaLengths == {0, 4, 256, 300, 512, ulong_mod - 4096}
DirIndexes == {0, 1, 2, 6, 15, 16, 17, 18}

InitRVA ==
    /\ ulong_mod \in ULongMods
    /\ dump_total_len = 4096
    /\ mem \in RvaImages
    /\ strs = <<>>
    /\ PE_nt_headers = get_nt_header
    /\ call = NoCall
    /\ Idle

CallRVA(rva, len) ==
    /\ call = NoCall
    /\ call' = [fn |-> "RVA", a |-> rva, b |-> len, ret |-> RVA(rva, len)]
    /\ UNCHANGED <<imgvars, PE_nt_headers, symvars, dumpvars, imevars, pc, out>>

CallGetDirAndSize(idx) ==
    /\ call = NoCall
    /\ call' = [fn |-> "get_dir_and_size", a |-> idx, b |-> 0,
                ret |-> get_dir_and_size(idx)]
    /\ UNCHANGED <<imgvars, PE_nt_headers, symvars, dumpvars, imevars, pc, out>>

NextRVA ==
    \/ \E rva \in RvaAddresses, len \in RvaLengths : CallRVA(rva, len)
    \/ \E idx \in DirIndexes : CallGetDirAndSize(idx)

SpecRVA == InitRVA /\ [][NextRVA]_vars

\* the section table as the file holds it, read without the model of RVA
SecBase == 64 + 24 + Rd(64 + 20)
SecVA(i) == Rd(SecBase + 40 * i + 12)
SecRaw(i) == Rd(SecBase + 40 * i + 16)
SecPtr(i) == Rd(SecBase + 40 * i + 20)
Matching(va, len) ==
    {i \in 0 .. Rd(64 + 6) - 1 :
        SecVA(i) <= va /\ (va + len) % ulong_mod <= (SecVA(i) + SecRaw(i)) % DwordMod}
Highest(S) == CHOOSE i \in S : \A j \in S : j <= i

\* C2: for va # 0, RVA(va, length) is the accessor's read at raw_offset +
\* (va - virtual_address) of the highest-index section with virtual_address <= va and
\* va + length <= virtual_address + raw_size (in the fields' arithmetic), and is absent
\* when no section matches; a lower-index matching section is never used.
InvC2 ==
    (call.fn = "RVA" /\ call.a # 0) =>
        IF Matching(call.a, call.b) = {}
        THEN call.ret = NULL
        ELSE LET i == Highest(Matching(call.a, call.b))
             IN  call.ret = PRD((SecPtr(i) + (call.a - SecVA(i))) % ulong_mod, call.b)

\* two sections match, they translate to different offsets, and the read succeeds
WitnessC2 ==
    /\ call.fn = "RVA" /\ call.a # 0 /\ call.ret # NULL
    /\ Cardinality(Matching(call.a, call.b)) >= 2
    /\ \E j \in Matching(call.a, call.b) :
          SecPtr(j) + (call.a - SecVA(j)) # call.ret

\* C3: rva_to_slice(0, L) is absent for every L and every section table, also when
\* a section with virtual address 0 covers the range.
InvC3 ==
    (call.fn = "RVA" /\ call.a = 0) => call.ret = NULL

\* address 0 asked for, and a section at virtual address 0 covers the range in the file
WitnessC3 ==
    /\ call.fn = "RVA" /\ call.a = 0 /\ call.ret = NULL
    /\ \E i \in Matching(0, call.b) : SecVA(i) = 0 /\ SecPtr(i) + call.b <= dump_total_len

\* C4: get_directory(index) is absent when index >= NumberOfRvaAndSizes of the layout
\* the magic selects (the 64-bit layout iff the magic is the 64-bit constant), and
\* otherwise is RVA(DataDirectory[index].VirtualAddress, DataDirectory[index].Size),
\* with the reported size DataDirectory[index].Size.
InvC4 ==
    call.fn = "get_dir_and_size" =>
        LET is64 == Rd(88) = 523
            count == IF is64 THEN Rd(88 + 108) ELSE Rd(88 + 92)
            entry == IF is64 THEN 88 + 112 + 8 * call.a ELSE 88 + 96 + 8 * call.a
        IN  IF call.a >= count
            THEN call.ret[1] = NULL
            ELSE call.ret = <<RVA(Rd(entry), Rd(entry + 4)), Rd(entry + 4)>>

\* a 64-bit image, an index the 32-bit layout's count would refuse, and a directory
\* that resolves
WitnessC4 ==
    /\ call.fn = "get_dir_and_size"
    /\ Rd(88) = 523
    /\ call.a >= Rd(88 + 92) /\ call.a < Rd(88 + 108)
    /\ call.ret[1] # NULL /\ call.ret[2] > 0

(***************************************************************************)
(* Symbol enumerator: do_grab_sym (pe.c:1546), dll_open, dll_next_symbol   *)
(***************************************************************************)
IMAGE_FILE_EXPORT_DIRECTORY == 0

\* IMAGE_EXPORT_DIRECTORY
ExpName(ed) == Rd(ed + 12)
ExpBase(ed) == Rd(ed + 16)
ExpNumberOfFunctions(ed) == Rd(ed + 20)
ExpNumberOfNames(ed) == Rd(ed + 24)
ExpAddressOfFunctions(ed) == Rd(ed + 28)
ExpAddressOfNames(ed) == Rd(ed + 32)
ExpAddressOfNameOrdinals(ed) == Rd(ed + 36)

Lower == <<"a", "b", "c", "d", "e", "f", "g", "h", "i", "j", "k", "l", "m",
           "n", "o", "p", "q", "r", "s", "t", "u", "v", "w", "x", "y", "z">>
Upper == <<"A", "B", "C", "D", "E", "F", "G", "H", "I", "J", "K", "L", "M",
           "N", "O", "P", "Q", "R", "S", "T", "U", "V", "W", "X", "Y", "Z">>
Digits == <<"0", "1", "2", "3", "4", "5", "6", "7", "8", "9">>

\* misc.c, not among the sources: "uppercased" (specification, section 4.7)
str_toupper(str) ==
    [k \in DOMAIN str |->
        IF \E c \in DOMAIN Lower : Lower[c] = str[k]
        THEN Upper[CHOOSE c \in DOMAIN Lower : Lower[c] = str[k]]
        ELSE str[k]]

\* printf's %u
RECURSIVE FormatU(_)
FormatU(n) ==
    IF n < 10 THEN <<Digits[n + 1]>>
    ELSE FormatU(n \div 10) \o <<Digits[(n % 10) + 1]>>

\* snprintf(ordinal_text, sizeof(ordinal_text), "%s_%u", ...), then str_toupper
ordinal_text_nocase(ordinal) ==
    LET text == module \o <<"_">> \o FormatU(ordinal)
    IN  SubSeq(text, 1, IF Len(text) > 255 THEN 255 ELSE Len(text))

ordinal_text_index(ordinal) ==
    LET text == module \o <<"_">> \o FormatU(ordinal - 1)
    IN  str_toupper(SubSeq(text, 1, IF Len(text) > 255 THEN 255 ELSE Len(text)))

ordinal_text(ordinal) ==
    LET text == module \o <<"_">> \o FormatU(ordinal)
    IN  str_toupper(SubSeq(text, 1, IF Len(text) > 255 THEN 255 ELSE Len(text)))

cant_get_function ==
    <<"c", "a", "n", "t", "_", "g", "e", "t", "_", "f", "u", "n", "c", "t", "i", "o", "n">>

\* the three tables of do_grab_sym (pe.c:1559-1564)
GrabName(ed) == RVA(ExpAddressOfNames(ed), ULONG(ExpNumberOfNames(ed) * 4))
GrabOrdl(ed) == RVA(ExpAddressOfNameOrdinals(ed), ULONG(ExpNumberOfNames(ed) * 2))
GrabFunc(ed) == RVA(ExpAddressOfFunctions(ed), ULONG(ExpNumberOfFunctions(ed) * 4))

\* *pOrdl and *pName of round j of the first loop
NameOrdl(ed, j) == Rd(GrabOrdl(ed) + 2 * j)
NamePtr(ed, j) == RVA(Rd(GrabName(ed) + 4 * j), 4)

\* the bitmap of used functions: its size in DWORDs, the writes that fall outside
\* it, and the test of bit i
MapWords(ed) == DWORD(ExpNumberOfFunctions(ed) + 31) \div 32
MapOverrun(ed) ==
    \E j \in 0 .. ExpNumberOfNames(ed) - 1 : NameOrdl(ed, j) \div 32 >= MapWords(ed)
MapBit(ed, i) ==
    \E j \in 0 .. ExpNumberOfNames(ed) - 1 : NameOrdl(ed, j) = i

\* first loop (pe.c:1575): one entry for each name
NamedSymbols(ed) ==
    [k \in 1 .. ExpNumberOfNames(ed) |->
        [symbol |-> IF NamePtr(ed, k - 1) = NULL THEN cant_get_function
                    ELSE RdStr(NamePtr(ed, k - 1)),
         ordinal |-> DWORD(ExpBase(ed) + NameOrdl(ed, k - 1))]]

\* second loop (pe.c:1585) from slot i on: the entries so far, and whether
\* assert(j <= NumberOfFunctions) has failed on the way
RECURSIVE OrdinalSymbols(_, _, _)
OrdinalSymbols(ed, i, acc) ==
    IF i >= ExpNumberOfFunctions(ed) THEN acc
    ELSE IF Rd(GrabFunc(ed) + 4 * i) # 0 /\ ~MapBit(ed, i)
    THEN OrdinalSymbols(ed, i + 1,
            [syms |-> Append(acc.syms,
                        [symbol |-> ordinal_text(DWORD(ExpBase(ed) + i)),
                         ordinal |-> DWORD(ExpBase(ed) + i)]),
             failed |-> acc.failed \/ Len(acc.syms) + 1 > ExpNumberOfFunctions(ed)])
    ELSE OrdinalSymbols(ed, i + 1, acc)

\* do_grab_sym from get_dir up to qsort (pe.c:1557-1606): how it leaves, the entries
\* written, whether the assertion failed, whether a write fell outside the bitmap or
\* outside the NumberOfFunctions + 1 entries of dll_symbols, and whether the bitmap
\* was allocated with no bytes
grab_sym ==
    LET ed == get_dir(IMAGE_FILE_EXPORT_DIRECTORY)
        none == [syms |-> <<>>, failed |-> FALSE, overrun |-> FALSE, nomap |-> FALSE]
    IN  IF ed = NULL THEN [ret |-> "no export directory"] @@ none
        ELSE IF GrabName(ed) = NULL
        THEN [ret |-> "Can't grab functions' name table"] @@ none
        ELSE IF GrabOrdl(ed) = NULL
        THEN [ret |-> "Can't grab functions' ordinal table"] @@ none
        ELSE IF GrabFunc(ed) = NULL
        THEN [ret |-> "Can't grab functions' address table"] @@ none
        ELSE LET acc == OrdinalSymbols(ed, 0, [syms |-> NamedSymbols(ed), failed |-> FALSE])
             IN  [ret |-> "built",
                  syms |-> acc.syms,
                  failed |-> acc.failed,
                  overrun |-> MapOverrun(ed) \/ Len(acc.syms) > ExpNumberOfFunctions(ed),
                  nomap |-> MapWords(ed) = 0]

\* symbol_cmp (pe.c:1521)
symbol_cmp(left, right) == IF left.ordinal > right.ordinal THEN 1 ELSE 0

\* qsort with symbol_cmp: the comparator never answers "less", which qsort requires
\* of it, so the order of the result is whatever the library's algorithm makes of it
qsort(syms) ==
    {[k \in DOMAIN syms |-> syms[p[k]]] : p \in Permutations(DOMAIN syms)}

MaxOpens == 2

\* dll_open (pe.c:1620): dump_analysis maps the file named and calls do_grab_sym,
\* which starts by locating the signature header (pe.c:1556)
dll_open(len, cells, strings) ==
    /\ pc = "run"
    /\ opens < MaxOpens
    /\ opens' = opens + 1
    /\ UNCHANGED <<ulong_mod, module>>
    /\ dump_total_len' = len
    /\ mem' = cells
    /\ strs' = strings
    /\ PE_nt_headers' = get_nt_header'
    /\ call' = [fn |-> "dll_open", a |-> 0, b |-> 0, ret |-> 0]
    /\ pc' = "do_grab_sym"
    /\ hist' = <<>>
    /\ UNCHANGED <<dll_symbols, dll_current_symbol, out, dumpvars, imevars>>

\* do_grab_sym from pe.c:1557 on.  Without a signature header get_dir reads through a
\* null PE_nt_headers; a failed assertion aborts unless the build drops assertions; a
\* write outside the bitmap or outside dll_symbols corrupts the heap, which the
\* process may or may not survive; calloc of no bytes may return NULL, and then
\* fatal() ends the process.
do_grab_sym ==
    /\ pc = "do_grab_sym"
    /\ UNCHANGED <<imgvars, PE_nt_headers, module, opens, call, dumpvars, imevars>>
    /\ IF PE_nt_headers = NULL
       THEN /\ pc' = "crashed"
            /\ UNCHANGED <<dll_symbols, dll_current_symbol, out, hist>>
       ELSE \E r \in {grab_sym} :
                IF r.ret # "built"
                THEN /\ pc' = "run"
                     /\ out' = IF r.ret = "no export directory" THEN out
                               ELSE Append(out, r.ret)
                     /\ UNCHANGED <<dll_symbols, dll_current_symbol, hist>>
                ELSE \/ /\ r.failed
                        /\ pc' = "aborted"
                        /\ UNCHANGED <<dll_symbols, dll_current_symbol, out, hist>>
                     \/ /\ r.overrun
                        /\ pc' = "crashed"
                        /\ UNCHANGED <<dll_symbols, dll_current_symbol, out, hist>>
                     \/ /\ r.nomap
                        /\ pc' = "fatal"
                        /\ out' = Append(out, "no memory")
                        /\ UNCHANGED <<dll_symbols, dll_current_symbol, hist>>
                     \/ /\ pc' = "run"
                        /\ dll_symbols' \in qsort(r.syms)
                        /\ dll_current_symbol' = 1
                        /\ UNCHANGED hist
                        /\ out' = Append(out, "symbols in DLL")

\* dll_next_symbol without the advance of the cursor at pe.c:1637
dll_next_symbol_stuck ==
    /\ pc = "run"
    /\ opens > 0
    /\ IF dll_current_symbol = 0 \/ dll_current_symbol > Len(dll_symbols)
       THEN /\ call' = [fn |-> "dll_next_symbol", a |-> 0, b |-> 0, ret |-> 1]
            /\ UNCHANGED hist
       ELSE /\ call' = [fn |-> "dll_next_symbol", a |-> 0, b |-> 0, ret |-> 0,
                        sym |-> dll_symbols[dll_current_symbol]]
            /\ hist' = Append(hist, dll_symbols[dll_current_symbol].ordinal)
    /\ UNCHANGED <<imgvars, PE_nt_headers, module, dll_symbols, dll_current_symbol, opens,
                   pc, out, dumpvars, imevars>>

\* dll_next_symbol (pe.c:1630): 1 at the end of the list, else 0 and the symbol
dll_next_symbol ==
    /\ pc = "run"
    /\ opens > 0
    /\ IF dll_current_symbol = 0 \/ dll_current_symbol > Len(dll_symbols)
       THEN /\ call' = [fn |-> "dll_next_symbol", a |-> 0, b |-> 0, ret |-> 1]
            /\ UNCHANGED <<dll_current_symbol, hist>>
       ELSE /\ call' = [fn |-> "dll_next_symbol", a |-> 0, b |-> 0, ret |-> 0,
                        sym |-> dll_symbols[dll_current_symbol]]
            /\ dll_current_symbol' = dll_current_symbol + 1
            /\ hist' = Append(hist, dll_symbols[dll_current_symbol].ordinal)
    /\ UNCHANGED <<imgvars, PE_nt_headers, module, dll_symbols, opens, pc, out, dumpvars, imevars>>

(***************************************************************************)
(* Images with an export directory                                         *)
(***************************************************************************)
MaxFuncs == 2
MaxNames == 2

FuncTables == UNION {[1 .. n -> {0, 4400}] : n \in 0 .. MaxFuncs}
OrdlTables == UNION {[1 .. m -> {0, 1, 40}] : m \in 0 .. MaxNames}

\* one section, virtual 4096..6144 at file offset 1024; the export directory at 4096,
\* its tables at aof, aon and aoo; the name of round j at 4352 + 16 j, except that
\* the second name's address resolves nowhere when badname
ExportCells(magic, dir, base, funcs, ordls, aof, aon, aoo, badname) ==
    {<<60, 64>>, <<64 + 6, 1>>, <<88, magic>>,
     <<64 + 20, IF magic = IMAGE_NT_OPTIONAL_HDR64_MAGIC THEN 240 ELSE 224>>,
     <<88 + 92, 16>>, <<88 + 108, 16>>,
     <<IF magic = IMAGE_NT_OPTIONAL_HDR64_MAGIC THEN 88 + 112 ELSE 88 + 96, dir>>,
     <<IF magic = IMAGE_NT_OPTIONAL_HDR64_MAGIC THEN 88 + 116 ELSE 88 + 100, 40>>}
    \cup (LET sec == 88 + (IF magic = IMAGE_NT_OPTIONAL_HDR64_MAGIC THEN 240 ELSE 224)
          IN  {<<sec + 12, 4096>>, <<sec + 16, 2048>>, <<sec + 20, 1024>>})
    \cup {<<1024 + 12, 4600>>, <<1024 + 16, base>>, <<1024 + 20, Len(funcs)>>,
          <<1024 + 24, Len(ordls)>>, <<1024 + 28, aof>>, <<1024 + 32, aon>>,
          <<1024 + 36, aoo>>}
    \cup {<<1088 + 4 * (i - 1), funcs[i]>> : i \in DOMAIN funcs}
    \cup {<<1152 + 4 * (j - 1), IF badname /\ j = 2 THEN 20000 ELSE 4352 + 16 * (j - 1)>> :
            j \in DOMAIN ordls}
    \cup {<<1216 + 2 * (j - 1), ordls[j]>> : j \in DOMAIN ordls}

ExportStrings == [o \in {1280 + 16 * j : j \in 0 .. 7} |-> <<"f", Digits[(o - 1280) \div 16 + 1]>>]

ExportImage(magic, dir, base, funcs, ordls, aof, aon, aoo, badname) ==
    [len |-> 4096,
     cells |-> Cells(ExportCells(magic, dir, base, funcs, ordls, aof, aon, aoo, badname)),
     strings |-> ExportStrings]

\* well-formed headers and tables that resolve
GoodImages ==
    {ExportImage(IMAGE_NT_OPTIONAL_HDR32_MAGIC, 4096, base, funcs, ordls, 4160, 4224, 4288, FALSE) :
        base \in {1, 7}, funcs \in FuncTables, ordls \in OrdlTables}

\* something does not resolve: the file ends inside the signature header; there is no
\* export directory; an ordinal-only image has no name table; the ordinal table or
\* the address table is outside every section; one name is outside every section
OddImages ==
    { [ExportImage(IMAGE_NT_OPTIONAL_HDR32_MAGIC, 4096, 1, <<4400>>, <<0>>, 4160, 4224, 4288, FALSE)
          EXCEPT !.len = 80],
      ExportImage(IMAGE_NT_OPTIONAL_HDR64_MAGIC, 0, 1, <<4400>>, <<0>>, 4160, 4224, 4288, FALSE),
      ExportImage(IMAGE_NT_OPTIONAL_HDR32_MAGIC, 4096, 1, <<4400, 4400>>, <<>>, 4160, 0, 0, FALSE),
      ExportImage(IMAGE_NT_OPTIONAL_HDR32_MAGIC, 4096, 1, <<4400>>, <<0>>, 4160, 4224, 20000, FALSE),
      ExportImage(IMAGE_NT_OPTIONAL_HDR64_MAGIC, 4096, 1, <<4400>>, <<0>>, 20000, 4224, 4288, FALSE),
      ExportImage(IMAGE_NT_OPTIONAL_HDR64_MAGIC, 4096, 3, <<4400, 0>>, <<1, 0>>, 4160, 4224, 4288, TRUE) }


InitSym ==
    /\ ulong_mod \in ULongMods
    /\ dump_total_len = 0
    /\ mem = <<>>
    /\ strs = <<>>
    /\ PE_nt_headers = NULL
    /\ call = NoCall
    /\ module = <<"m", "K", "3">>
    /\ dll_symbols = <<>>
    /\ dll_current_symbol = 0
    /\ pc = "run"
    /\ out = <<>>
    /\ hist = <<>>
    /\ opens = 0
    /\ NoDump

NextSym ==
    \/ \E img \in (IF opens = 0 THEN GoodImages \cup OddImages ELSE OddImages) :
          dll_open(img.len, img.cells, img.strings)
    \/ do_grab_sym
    \/ dll_next_symbol

SpecSym == InitSym /\ [][NextSym]_vars

\* the export table as the file holds it: the three tables a reader needs resolve
\* (the name tables only if there are names)
TableReadable(ed) ==
    /\ GrabFunc(ed) # NULL
    /\ ExpNumberOfNames(ed) > 0 => (GrabName(ed) # NULL /\ GrabOrdl(ed) # NULL)

SlotPresent(ed, i) == Rd(GrabFunc(ed) + 4 * i) # 0
SlotClaimed(ed, i) ==
    \E j \in 0 .. ExpNumberOfNames(ed) - 1 : Rd(GrabOrdl(ed) + 2 * j) = i
Synthesized(ed, i) ==
    [symbol |-> str_toupper(module \o <<"_">> \o FormatU(DWORD(ExpBase(ed) + i))),
     ordinal |-> DWORD(ExpBase(ed) + i)]
Listed(sym) == \E k \in DOMAIN dll_symbols : dll_symbols[k] = sym

\* C9: once the first dll_open has returned on an image whose export table is
\* readable, slot i of the function-address table has a synthesized symbol
\* <MODULE>_<Base+i> with ordinal Base+i in the list if and only if the slot is
\* present and no name's ordinal-offset is i, and every named export has a symbol
\* with ordinal Base + its ordinal-offset in the list.
ClaimC9 ==
    (pc = "run" /\ opens = 1 /\ PE_nt_headers # NULL
        /\ get_dir(IMAGE_FILE_EXPORT_DIRECTORY) # NULL
        /\ TableReadable(get_dir(IMAGE_FILE_EXPORT_DIRECTORY))) =>
    \A ed \in {get_dir(IMAGE_FILE_EXPORT_DIRECTORY)} :
        /\ \A i \in 0 .. ExpNumberOfFunctions(ed) - 1 :
              Listed(Synthesized(ed, i)) <=> (SlotPresent(ed, i) /\ ~SlotClaimed(ed, i))
        /\ \A j \in 0 .. ExpNumberOfNames(ed) - 1 :
              \E k \in DOMAIN dll_symbols :
                  dll_symbols[k].ordinal = DWORD(ExpBase(ed) + Rd(GrabOrdl(ed) + 2 * j))

\* C10: the ordinals dll_next_symbol returns after one dll_open are strictly
\* increasing: none comes twice, and each is greater than the one before.
ClaimC10 ==
    \A k \in 1 .. Len(hist) - 1 : hist[k] < hist[k + 1]

\* the last dll_open built a list: do_grab_sym came to its qsort on the image that
\* is mapped, and returned
Built == pc = "run" /\ opens > 0 /\ PE_nt_headers # NULL /\ grab_sym.ret = "built"

\* a list with sym put behind the last entry whose ordinal is not greater
RECURSIVE InsertStable(_, _)
InsertStable(sorted, sym) ==
    IF sorted = <<>> \/ sorted[Len(sorted)].ordinal <= sym.ordinal
    THEN Append(sorted, sym)
    ELSE Append(InsertStable(SubSeq(sorted, 1, Len(sorted) - 1), sym), sorted[Len(sorted)])

\* syms sorted by ordinal, equal ordinals in the order of insertion
RECURSIVE StableSort(_)
StableSort(syms) ==
    IF syms = <<>> THEN <<>>
    ELSE InsertStable(StableSort(SubSeq(syms, 1, Len(syms) - 1)), syms[Len(syms)])

Sign(n) == IF n > 0 THEN 1 ELSE IF n < 0 THEN -1 ELSE 0

\* C11: when the first dll_open has built the list, dll_symbols is the combined list
\* (named, then synthesized) sorted by ordinal with equal ordinals in insertion
\* order, and symbol_cmp orders every pair of its symbols by ordinal: negative for
\* less, zero for equal, positive for greater.
ClaimC11 ==
    (Built /\ opens = 1) =>
        /\ dll_symbols = StableSort(grab_sym.syms)
        /\ \A l, r \in {dll_symbols[k] : k \in DOMAIN dll_symbols} :
              Sign(symbol_cmp(l, r)) = Sign(l.ordinal - r.ordinal)

\* DLLs to enumerate: two functions of which the second is named; two names for the
\* first of two functions; one function by ordinal alone
EnumImages ==
    { ExportImage(IMAGE_NT_OPTIONAL_HDR32_MAGIC, 4096, 1, <<4400, 4400>>, <<1>>,
                  4160, 4224, 4288, FALSE),
      ExportImage(IMAGE_NT_OPTIONAL_HDR64_MAGIC, 4096, 7, <<4400, 4400>>, <<0, 0>>,
                  4160, 4224, 4288, FALSE),
      ExportImage(IMAGE_NT_OPTIONAL_HDR32_MAGIC, 4096, 1, <<4400>>, <<>>,
                  4160, 4224, 4288, FALSE) }

\* any of them, or one that does not open, is opened at any time
NextEnum ==
    \/ \E img \in EnumImages \cup OddImages : dll_open(img.len, img.cells, img.strings)
    \/ do_grab_sym
    \/ dll_next_symbol

SpecEnum == InitSym /\ [][NextEnum]_vars

\* C12: after a dll_open that built a list of n symbols, the k-th dll_next_symbol
\* (k <= n) returns 0 and the k-th entry of dll_symbols, every later one returns 1,
\* and no dll_next_symbol changes dll_symbols; the cursor advances by one on a
\* success and stays on the terminator.
InvC12 ==
    [][(Built /\ pc' = "run") =>
          /\ dll_symbols' = dll_symbols
          /\ call'.fn = "dll_next_symbol"
          /\ IF Len(hist) < Len(dll_symbols)
             THEN /\ call'.ret = 0
                  /\ call'.sym = dll_symbols[Len(hist) + 1]
                  /\ dll_current_symbol' = dll_current_symbol + 1
                  /\ hist' = Append(hist, call'.sym.ordinal)
             ELSE /\ call'.ret = 1
                  /\ dll_current_symbol' = Len(dll_symbols) + 1
                  /\ hist' = hist]_vars

\* a list of two symbols was enumerated to its end, and the call after it was made
WitnessC12 ==
    /\ Built
    /\ Len(dll_symbols) = 2
    /\ Len(hist) = 2
    /\ call.fn = "dll_next_symbol"
    /\ call.ret = 1

\* C14: once do_grab_sym has gone through the tables of the first image, no name
\* whose ordinal-offset is NumberOfFunctions or more has been used: the write into
\* the bitmap of claimed ordinals did not bring the process down, and the list
\* holds no symbol for such a name.
ClaimC14 ==
    (/\ opens = 1
     /\ pc \in {"run", "crashed"}
     /\ PE_nt_headers # NULL
     /\ grab_sym.ret = "built")
    => \A ed \in {get_dir(IMAGE_FILE_EXPORT_DIRECTORY)} :
          \A j \in 0 .. ExpNumberOfNames(ed) - 1 :
              NameOrdl(ed, j) >= ExpNumberOfFunctions(ed) =>
                  /\ pc # "crashed"
                  /\ \A k \in DOMAIN dll_symbols :
                        dll_symbols[k].ordinal # DWORD(ExpBase(ed) + NameOrdl(ed, j))

(***************************************************************************)
(* pe_dump (pe.c:1463) and the directory decoders.  A decoder is modelled   *)
(* by what it prints (lines), the undefined behaviour it runs into (ub) and *)
(* the resolutions that fail inside it (fails: what, and whether reported). *)
(* ub: "null" a null pointer is dereferenced; "oob" bytes of the file are   *)
(* read outside the slice the accessor checked; "wild" bytes outside the    *)
(* mapped file are read; "heap" a write outside a heap block; "nullarg" a   *)
(* null pointer is handed to printf or get_symbol_str; "runaway" a loop     *)
(* reads on for gigabytes; "nomem" an allocation of no bytes.               *)
(* Strings are taken to end inside the file.                                *)
(***************************************************************************)
Line(dec, what, a, b, s) == [dec |-> dec, what |-> what, a |-> a, b |-> b, s |-> s]

Clean == [lines |-> <<>>, ub |-> {}, fails |-> {}]
Emit(acc, line) == [acc EXCEPT !.lines = Append(@, line)]
Ub(acc, kind) == [acc EXCEPT !.ub = @ \cup {kind}]
Fail(acc, what, reported) == [acc EXCEPT !.fails = @ \cup {<<what, reported>>}]

\* a read of len bytes at ptr by a decoder that had [base, base + size) checked
Chk(acc, ptr, len, base, size) ==
    IF ptr < 0 \/ ptr + len > dump_total_len THEN Ub(acc, "wild")
    ELSE IF ptr < base \/ ptr + len > base + size THEN Ub(acc, "oob")
    ELSE acc

\* the process dies where it dereferences a null pointer, and in a loop that no
\* end of the file stops
Dead(acc) == "null" \in acc.ub \/ "runaway" \in acc.ub

\* how the process goes on after a decoder: a null dereference kills it, a wild
\* access may, an allocation of no bytes may end it through fatal()
Ends(r, next) ==
    IF Dead(r) THEN {"crashed"}
    ELSE {next} \cup (IF r.ub \cap {"wild", "heap", "nullarg"} # {} THEN {"crashed"} ELSE {})
                \cup (IF "nomem" \in r.ub THEN {"fatal"} ELSE {})

\* pe_dump's test of globals.dumpsect (pe.c:1486)
Wanted(section) == globals.dumpsect = "ALL" \/ globals.dumpsect = section

\* one decoder call of pe_dump: every decoder starts with get_dir, which reads
\* PE_nt_headers->OptionalHeader.Magic
Decode(dec, section, next, r) ==
    /\ pc = dec
    /\ UNCHANGED <<imgvars, PE_nt_headers, call, symvars, imevars, globals, ref>>
    /\ IF ~Wanted(section)
       THEN /\ pc' = next
            /\ UNCHANGED <<out, fault, fails>>
       ELSE IF PE_nt_headers = NULL
       THEN /\ pc' = "crashed"
            /\ fault' = fault \cup {<<dec, "null">>}
            /\ UNCHANGED <<out, fails>>
       ELSE /\ out' = out \o r.lines
            /\ fault' = fault \cup {<<dec, k>> : k \in r.ub}
            /\ fails' = fails \cup {<<dec, f[1], f[2]>> : f \in r.fails}
            /\ pc' \in Ends(r, next)

\* is_fake_dll (pe.c:98): the placeholder signature follows the DOS header
fakedll_signature ==
    <<"W", "i", "n", "e", " ", "p", "l", "a", "c", "e", "h", "o", "l", "d", "e", "r",
      " ", "D", "L", "L">>
is_fake_dll ==
    /\ PRD(0, 64 + 21) # NULL
    /\ e_lfanew(0) >= 64 + 21
    /\ RdStr(64) = fakedll_signature

\* pe_dump up to its first decoder (pe.c:1465-1482): dump_pe_header and dump_sections
\* read through PE_nt_headers, which nothing has checked.  The model runs without
\* -x (do_symbol_table) and without -G (do_debug).
pe_dump ==
    /\ pc = "pe_dump"
    /\ PE_nt_headers' = get_nt_header
    /\ UNCHANGED <<imgvars, call, symvars, imevars, globals, ref, fails>>
    /\ IF globals.do_dumpheader \/ globals.dumpsect = ""
       THEN IF get_nt_header = NULL
            THEN /\ pc' = "crashed"
                 /\ fault' = fault \cup {<<"header", "null">>}
                 /\ out' = out \o (IF is_fake_dll THEN <<Line("header", "fake DLL", 0, 0, <<>>)>>
                                    ELSE <<>>)
            ELSE /\ pc' = IF globals.dumpsect = "" THEN "done" ELSE "import"
                 /\ UNCHANGED fault
                 /\ out' = out
                      \o (IF is_fake_dll THEN <<Line("header", "fake DLL", 0, 0, <<>>)>> ELSE <<>>)
                      \o <<Line("header", "PE header", Rd(get_nt_header + 24), 0, <<>>)>>
                      \o (IF globals.do_dumpheader
                          THEN <<Line("header", "sections", Rd(get_nt_header + 6), 0, <<>>)>>
                          ELSE <<>>)
       ELSE /\ pc' = "import"
            /\ UNCHANGED fault
            /\ out' = out \o (IF is_fake_dll THEN <<Line("header", "fake DLL", 0, 0, <<>>)>>
                               ELSE <<>>)

(***************************************************************************)
(* dump_dir_imported_functions (pe.c:747), dump_dir_delay_imported_functions *)
(* (pe.c:800) and the thunk walks (pe.c:710, pe.c:729).  The top bit of the  *)
(* thunk marks an import by ordinal.                                        *)
(***************************************************************************)
IMAGE_FILE_IMPORT_DIRECTORY == 1
IMAGE_DIRECTORY_ENTRY_DELAY_IMPORT == 13

\* OptionalHeader.ImageBase as the 32-bit layout has it (pe.c:832, pe.c:1070)
ImageBase == Rd(OptionalHeader + 28)

\* dump_image_thunk_data32 from thunk t on; RVA checked 4 bytes at il
RECURSIVE thunk_data32(_, _, _, _, _)
thunk_data32(dec, il, offset, t, acc) ==
    LET v == Rd(il + 4 * t)
        a0 == Chk(acc, il + 4 * t, 4, il, 4)
        iibn == RVA(DWORD(v + DwordMod - offset), 4)
    IN  IF v = 0 THEN a0
        ELSE IF v >= DwordMod \div 2
        THEN thunk_data32(dec, il, offset, t + 1,
                 Emit(a0, Line(dec, "by ordinal", v % (DwordMod \div 2), 0, <<>>)))
        ELSE IF iibn = NULL
        THEN thunk_data32(dec, il, offset, t + 1,
                 Fail(Emit(a0, Line(dec, "Can't grab import by name info, skipping to next ordinal",
                                    0, 0, <<>>)),
                      "hint/name", TRUE))
        ELSE thunk_data32(dec, il, offset, t + 1,
                 Emit(a0, Line(dec, "by name", Rd(iibn), v, RdStr(iibn + 2))))

\* dump_image_thunk_data64 from thunk t on: 8 bytes a thunk, the mark in the high half
RECURSIVE thunk_data64(_, _, _, _)
thunk_data64(dec, il, t, acc) ==
    LET lo == Rd(il + 8 * t)
        hi == Rd(il + 8 * t + 4)
        a0 == Chk(acc, il + 8 * t, 8, il, 4)
        iibn == RVA(lo, 4)
    IN  IF lo = 0 /\ hi = 0 THEN a0
        ELSE IF hi >= DwordMod \div 2
        THEN thunk_data64(dec, il, t + 1,
                 Emit(a0, Line(dec, "by ordinal", lo % (DwordMod \div 2), 0, <<>>)))
        ELSE IF iibn = NULL
        THEN thunk_data64(dec, il, t + 1,
                 Fail(Emit(a0, Line(dec, "Can't grab import by name info, skipping to next ordinal",
                                    0, 0, <<>>)),
                      "hint/name", TRUE))
        ELSE thunk_data64(dec, il, t + 1,
                 Emit(a0, Line(dec, "by name", Rd(iibn), lo, RdStr(iibn + 2))))

\* the loop at pe.c:766 with a thunk source that falls back to FirstThunk when
\* OriginalFirstThunk does not resolve
RECURSIVE ImportDescs_fallback(_, _, _, _)
ImportDescs_fallback(importDesc, size, k, acc) ==
    LET d == importDesc + 20 * k
        a0 == Chk(acc, d, 20, importDesc, size)
        name == RVA(Rd(d + 12), 4)
        a1 == Emit(IF name = NULL THEN Ub(a0, "nullarg") ELSE a0,
                   Line("import", "offset", d, Rd(d + 16),
                        IF name = NULL THEN <<>> ELSE RdStr(name)))
        il == IF Rd(d) # 0 /\ RVA(Rd(d), 4) # NULL THEN RVA(Rd(d), 4) ELSE RVA(Rd(d + 16), 4)
    IN  IF Rd(d + 12) = 0 \/ Rd(d + 16) = 0 THEN a0
        ELSE IF il = NULL
        THEN ImportDescs_fallback(importDesc, size, k + 1,
                 Fail(Emit(a1, Line("import", "Can't grab thunk data, going to next imported DLL",
                                    0, 0, <<>>)),
                      "thunk", TRUE))
        ELSE IF Magic = IMAGE_NT_OPTIONAL_HDR64_MAGIC
        THEN ImportDescs_fallback(importDesc, size, k + 1, thunk_data64("import", il, 0, a1))
        ELSE ImportDescs_fallback(importDesc, size, k + 1, thunk_data32("import", il, 0, 0, a1))

\* the loop at pe.c:766 from descriptor k on
RECURSIVE ImportDescs(_, _, _, _)
ImportDescs(importDesc, size, k, acc) ==
    LET d == importDesc + 20 * k
        a0 == Chk(acc, d, 20, importDesc, size)
        name == RVA(Rd(d + 12), 4)
        a1 == Emit(IF name = NULL THEN Ub(a0, "nullarg") ELSE a0,
                   Line("import", "offset", d, Rd(d + 16),
                        IF name = NULL THEN <<>> ELSE RdStr(name)))
        il == IF Rd(d) # 0 THEN RVA(Rd(d), 4) ELSE RVA(Rd(d + 16), 4)
    IN  IF Rd(d + 12) = 0 \/ Rd(d + 16) = 0 THEN a0
        ELSE IF il = NULL
        THEN ImportDescs(importDesc, size, k + 1,
                 Fail(Emit(a1, Line("import", "Can't grab thunk data, going to next imported DLL",
                                    0, 0, <<>>)),
                      "thunk", TRUE))
        ELSE IF Magic = IMAGE_NT_OPTIONAL_HDR64_MAGIC
        THEN ImportDescs(importDesc, size, k + 1, thunk_data64("import", il, 0, a1))
        ELSE ImportDescs(importDesc, size, k + 1, thunk_data32("import", il, 0, 0, a1))

imported_functions ==
    LET importDesc == get_dir_and_size(IMAGE_FILE_IMPORT_DIRECTORY)[1]
        size == get_dir_and_size(IMAGE_FILE_IMPORT_DIRECTORY)[2]
    IN  IF importDesc = NULL THEN Clean
        ELSE ImportDescs(importDesc, size, 0,
                 Emit(Clean, Line("import", "Import Table size", size, 0, <<>>)))

dump_dir_imported_functions == Decode("import", "import", "delay", imported_functions)

\* the loop at pe.c:829 from descriptor k on
RECURSIVE DelayDescs(_, _, _, _)
DelayDescs(importDesc, size, k, acc) ==
    LET d == importDesc + 32 * k
        offset == IF Rd(d) % 2 = 1 THEN 0 ELSE ImageBase
        a0 == Chk(acc, d, 32, importDesc, size)
        name == RVA(DWORD(Rd(d + 4) + DwordMod - offset), 4)
        a1 == Emit(IF name = NULL THEN Ub(a0, "nullarg") ELSE a0,
                   Line("delay", "offset", d, Rd(d + 16),
                        IF name = NULL THEN <<>> ELSE RdStr(name)))
        il == RVA(DWORD(Rd(d + 16) + DwordMod - offset), 4)
    IN  IF Rd(d + 4) = 0 \/ Rd(d + 12) = 0 \/ Rd(d + 16) = 0 THEN a0
        ELSE IF il = NULL
        THEN DelayDescs(importDesc, size, k + 1,
                 Fail(Emit(a1, Line("delay", "Can't grab thunk data, going to next imported DLL",
                                    0, 0, <<>>)),
                      "thunk", TRUE))
        ELSE IF Magic = IMAGE_NT_OPTIONAL_HDR64_MAGIC
        THEN DelayDescs(importDesc, size, k + 1, thunk_data64("delay", il, 0, a1))
        ELSE DelayDescs(importDesc, size, k + 1, thunk_data32("delay", il, offset, 0, a1))

delay_imported_functions ==
    LET importDesc == get_dir_and_size(IMAGE_DIRECTORY_ENTRY_DELAY_IMPORT)[1]
        size == get_dir_and_size(IMAGE_DIRECTORY_ENTRY_DELAY_IMPORT)[2]
    IN  IF importDesc = NULL THEN Clean
        ELSE DelayDescs(importDesc, size, 0,
                 Emit(Clean, Line("delay", "Delay Import Table size", size, 0, <<>>)))

dump_dir_delay_imported_functions ==
    Decode("delay", "import", "export", delay_imported_functions)

(***************************************************************************)
(* dump_dir_exported_functions (pe.c:482)                                  *)
(***************************************************************************)
by_ordinal == <<"<", "b", "y", " ", "o", "r", "d", "i", "n", "a", "l", ">">>

\* funcs[i] after the loop at pe.c:518: the name of the last round that wrote slot i
ExportFuncsSlot(ed, pName, pOrdl, i) ==
    LET rounds == {j \in 0 .. ExpNumberOfNames(ed) - 1 : Rd(pOrdl + 2 * j) = i}
    IN  IF rounds = {} THEN 0
        ELSE Rd(pName + 4 * (CHOOSE j \in rounds : \A k \in rounds : k <= j))

\* the loop at pe.c:520 from slot i on
RECURSIVE ExportEntries(_, _, _, _, _, _, _)
ExportEntries(ed, size, pFunc, pName, pOrdl, i, acc) ==
    IF i >= ExpNumberOfFunctions(ed) THEN acc
    ELSE IF Rd(pFunc + 4 * i) = 0 THEN ExportEntries(ed, size, pFunc, pName, pOrdl, i + 1, acc)
    ELSE LET name == ExportFuncsSlot(ed, pName, pOrdl, i)
             fwd == RVA(Rd(pFunc + 4 * i), 1)
             a1 == IF name # 0 /\ RVA(name, 4) = NULL THEN Ub(acc, "nullarg") ELSE acc
             a2 == Emit(a1, Line("export", "entry", Rd(pFunc + 4 * i), DWORD(ExpBase(ed) + i),
                                 IF name = 0 THEN by_ordinal
                                 ELSE IF RVA(name, 4) = NULL THEN <<>>
                                 ELSE RdStr(RVA(name, 4))))
             a3 == IF fwd >= ed /\ fwd < ed + size
                   THEN Emit(a2, Line("export", "forward", 0, DWORD(ExpBase(ed) + i), RdStr(fwd)))
                   ELSE a2
         IN  ExportEntries(ed, size, pFunc, pName, pOrdl, i + 1, a3)

exported_functions ==
    LET ed == get_dir_and_size(IMAGE_FILE_EXPORT_DIRECTORY)[1]
        size == get_dir_and_size(IMAGE_FILE_EXPORT_DIRECTORY)[2]
        pFunc == RVA(ExpAddressOfFunctions(ed), ULONG(ExpNumberOfFunctions(ed) * 4))
        pName == RVA(ExpAddressOfNames(ed), ULONG(ExpNumberOfNames(ed) * 4))
        pOrdl == RVA(ExpAddressOfNameOrdinals(ed), ULONG(ExpNumberOfNames(ed) * 2))
        a0 == Emit(Chk(IF RVA(ExpName(ed), 4) = NULL THEN Ub(Clean, "nullarg") ELSE Clean,
                       ed, 40, ed, size),
                   Line("export", "Exports table:", ExpNumberOfFunctions(ed), ExpNumberOfNames(ed),
                        IF RVA(ExpName(ed), 4) = NULL THEN <<>> ELSE RdStr(RVA(ExpName(ed), 4))))
    IN  IF ed = NULL THEN Clean
        ELSE IF pFunc = NULL
        THEN Fail(Emit(a0, Line("export", "Can't grab functions' address table", 0, 0, <<>>)),
                  "address table", TRUE)
        ELSE IF ExpNumberOfNames(ed) > 0 /\ pName = NULL
        THEN Ub(Fail(a0, "name table", FALSE), "null")
        ELSE IF ExpNumberOfNames(ed) > 0 /\ pOrdl = NULL
        THEN Ub(Fail(a0, "ordinal table", FALSE), "null")
        ELSE LET a1 == IF ExpNumberOfFunctions(ed) = 0 THEN Ub(a0, "nomem") ELSE a0
                 a2 == IF \E j \in 0 .. ExpNumberOfNames(ed) - 1 :
                              Rd(pOrdl + 2 * j) >= ExpNumberOfFunctions(ed)
                       THEN Ub(a1, "heap") ELSE a1
             IN  ExportEntries(ed, size, pFunc, pName, pOrdl, 0, a2)

dump_dir_exported_functions == Decode("export", "export", "debug", exported_functions)

(***************************************************************************)
(* dump_dir_debug (pe.c:932) and dump_dir_debug_dir (pe.c:861).  The COFF,  *)
(* CodeView and FPO dumpers are in other files; the images of the model     *)
(* hold records of the other types.                                        *)
(***************************************************************************)
IMAGE_FILE_DEBUG_DIRECTORY == 6
IMAGE_DEBUG_TYPE_MISC == 4

\* the loop at pe.c:944 from record i on; the directory had size bytes checked
RECURSIVE DebugDirs(_, _, _, _, _)
DebugDirs(debugDir, size, nb_dbg, i, acc) ==
    IF i >= nb_dbg THEN acc
    ELSE LET idd == debugDir + 28 * i
             a1 == Emit(Chk(acc, idd, 28, debugDir, size),
                        Line("debug", "Directory", i + 1, Rd(idd + 12), <<>>))
             misc == PRD(Rd(idd + 24), Rd(idd + 16))
             a2 == IF Rd(idd + 12) # IMAGE_DEBUG_TYPE_MISC THEN a1
                   ELSE IF misc = NULL
                   THEN Fail(Emit(a1, Line("debug", "Can't get misc debug information", 0, 0, <<>>)),
                             "misc", TRUE)
                   ELSE Emit(Chk(a1, misc, 13, misc, Rd(idd + 16)),
                             Line("debug", "misc", Rd(misc), Rd(misc + 4), RdStr(misc + 12)))
         IN  DebugDirs(debugDir, size, nb_dbg, i + 1, a2)

\* nb_dbg is taken from the 32-bit layout whatever the magic (pe.c:938)
dir_debug ==
    LET debugDir == get_dir_and_size(IMAGE_FILE_DEBUG_DIRECTORY)[1]
        size == get_dir_and_size(IMAGE_FILE_DEBUG_DIRECTORY)[2]
        nb_dbg == DataDirectory32(IMAGE_FILE_DEBUG_DIRECTORY).Size \div 28
    IN  IF debugDir = NULL THEN Clean
        ELSE IF nb_dbg = 0 THEN Clean
        ELSE DebugDirs(debugDir, size, nb_dbg, 0,
                       Emit(Clean, Line("debug", "Debug Table", nb_dbg, 0, <<>>)))

dump_dir_debug == Decode("debug", "debug", "resource", dir_debug)

(***************************************************************************)
(* dump_dir_resource (pe.c:1315), dump_string_data (pe.c:1257) and          *)
(* dump_msgtable_data (pe.c:1283).  The top bit of an entry's first DWORD   *)
(* is NameIsString, the bits below it are NameOffset or Id; the bits below  *)
(* the top bit of its second DWORD are OffsetToDirectory.                   *)
(***************************************************************************)
IMAGE_FILE_RESOURCE_DIRECTORY == 2
RT_STRING == 6
RT_MESSAGETABLE == 11

NameIsString(e) == Rd(e) >= DwordMod \div 2
NameOffset(e) == Rd(e) % (DwordMod \div 2)
ResId(e) == Rd(e) % (DwordMod \div 2)
OffsetToDirectory(e) == Rd(e + 4) % (DwordMod \div 2)
ResEntries(dir) == Rd(dir + 12) + Rd(dir + 14)

\* dump_data (dump.c, not among the sources: "opaque byte dump", specification
\* section 4.5): one line for the bytes
dump_data(acc, ptr, size) ==
    Emit(acc, Line("resource", IF ptr = NULL THEN "data NULL" ELSE "data", size, 0, <<>>))

\* a string decoder that numbers the strings of block id from id * 16
RECURSIVE string_data_from_id(_, _, _, _, _, _, _)
string_data_from_id(data, dsize, ptr, size, id, i, acc) ==
    IF i >= 16 \/ size = 0 THEN acc
    ELSE IF data = NULL THEN Ub(acc, "null")
    ELSE LET len == IF Rd(ptr) >= size THEN size ELSE Rd(ptr)
             rest == IF Rd(ptr) >= size THEN 0 ELSE size - (Rd(ptr) + 1)
             a1 == IF len = 0 THEN acc
                   ELSE Emit(acc, Line("resource", "string", DWORD(id * 16 + i), len,
                                       RdStr(ptr + 2)))
         IN  string_data_from_id(data, dsize, ptr + 2 + 2 * len, rest, id, i + 1, a1)

\* dump_string_data from string i on: ptr moves through the data, of which the
\* dsize bytes at data were checked; size is counted down in characters
RECURSIVE string_data(_, _, _, _, _, _, _)
string_data(data, dsize, ptr, size, id, i, acc) ==
    IF i >= 16 \/ size = 0 THEN acc
    ELSE IF data = NULL THEN Ub(acc, "null")
    ELSE LET len == IF Rd(ptr) >= size THEN size ELSE Rd(ptr)
             rest == IF Rd(ptr) >= size THEN 0 ELSE size - (Rd(ptr) + 1)
             a0 == Chk(acc, ptr, 2, data, dsize)
             a1 == IF len = 0 THEN a0
                   ELSE Emit(Chk(a0, ptr + 2, 2 * len, data, dsize),
                             Line("resource", "string", DWORD((id + DwordMod - 1) * 16 + i), len,
                                  RdStr(ptr + 2)))
         IN  string_data(data, dsize, ptr + 2 + 2 * len, rest, id, i + 1, a1)

\* the loop at pe.c:1294 from message j on
RECURSIVE MsgEntries(_, _, _, _, _, _)
MsgEntries(data, dsize, entry, j, HighId, acc) ==
    IF j > HighId THEN acc
    ELSE MsgEntries(data, dsize, entry + Rd(entry), j + 1, HighId,
             Emit(Chk(acc, entry, 4 + Len(RdStr(entry + 4)) + 1, data, dsize),
                  Line("resource", IF Rd(entry + 2) % 2 = 1 THEN "message L" ELSE "message",
                       j, Rd(entry), RdStr(entry + 4))))

\* the loop at pe.c:1289 from block i on
RECURSIVE MsgBlocks(_, _, _, _)
MsgBlocks(data, dsize, i, acc) ==
    IF i >= Rd(data) THEN acc
    ELSE LET block == data + 4 + 12 * i
         IN  MsgBlocks(data, dsize, i + 1,
                 MsgEntries(data, dsize, data + Rd(block + 8), Rd(block), Rd(block + 4),
                            Chk(acc, block, 12, data, dsize)))

msgtable_data(data, dsize, acc) ==
    IF data = NULL THEN Ub(acc, "null")
    ELSE MsgBlocks(data, dsize, 0, Chk(acc, data, 4, data, dsize))

\* a walker that dispatches on the low bits of the type entry whatever its
\* NameIsString bit is
ResLeaf_byid(root, size, e1, e2, e3, acc) ==
    LET data == root + Rd(e3 + 4)
        a3 == Chk(Emit(Emit(Emit(acc, Line("resource",
                                           IF NameIsString(e1) THEN "type name" ELSE "type",
                                           ResId(e1), 0, <<>>)),
                            Line("resource", "Name=", ResId(e2), 0, <<>>)),
                       Line("resource", "Language=", ResId(e3), 0, <<>>)),
                  data, 8, root, size)
        ptr == RVA(Rd(data), Rd(data + 4))
    IN  IF ResId(e1) = RT_STRING
        THEN string_data(ptr, Rd(data + 4), ptr, Rd(data + 4), ResId(e2), 0, a3)
        ELSE IF ResId(e1) = RT_MESSAGETABLE
        THEN msgtable_data(ptr, Rd(data + 4), a3)
        ELSE dump_data(a3, ptr, Rd(data + 4))

\* the body of the innermost loop (pe.c:1339-1382)
ResLeaf(root, size, e1, e2, e3, acc) ==
    LET str1 == root + NameOffset(e1)
        str2 == root + NameOffset(e2)
        a1 == IF NameIsString(e1)
              THEN Emit(Chk(acc, str1, 2 + 2 * Rd(str1), root, size),
                        Line("resource", "type name", 0, Rd(str1), RdStr(str1 + 2)))
              ELSE Emit(acc, Line("resource", "type", ResId(e1), 0, <<>>))
        a2 == IF NameIsString(e2)
              THEN Emit(Chk(a1, str2, 2 + 2 * Rd(str2), root, size),
                        Line("resource", "Name=", 0, Rd(str2), RdStr(str2 + 2)))
              ELSE Emit(a1, Line("resource", "Name=", ResId(e2), 0, <<>>))
        data == root + Rd(e3 + 4)
        a3 == Chk(Emit(a2, Line("resource", "Language=", ResId(e3), 0, <<>>)),
                  data, 8, root, size)
        ptr == RVA(Rd(data), Rd(data + 4))
    IN  IF NameIsString(e1) THEN dump_data(a3, ptr, Rd(data + 4))
        ELSE IF ResId(e1) = RT_STRING
        THEN string_data(ptr, Rd(data + 4), ptr, Rd(data + 4), ResId(e2), 0, a3)
        ELSE IF ResId(e1) = RT_MESSAGETABLE
        THEN msgtable_data(ptr, Rd(data + 4), a3)
        ELSE dump_data(a3, ptr, Rd(data + 4))

RECURSIVE ResLangs(_, _, _, _, _, _, _)
ResLangs(root, size, e1, e2, langdir, k, acc) ==
    IF Dead(acc) \/ k >= ResEntries(langdir) THEN acc
    ELSE ResLangs(root, size, e1, e2, langdir, k + 1,
             ResLeaf(root, size, e1, e2, langdir + 16 + 8 * k,
                     Chk(acc, langdir + 16 + 8 * k, 8, root, size)))

RECURSIVE ResNames(_, _, _, _, _, _)
ResNames(root, size, e1, namedir, j, acc) ==
    IF Dead(acc) \/ j >= ResEntries(namedir) THEN acc
    ELSE LET e2 == namedir + 16 + 8 * j
             langdir == root + OffsetToDirectory(e2)
         IN  ResNames(root, size, e1, namedir, j + 1,
                 ResLangs(root, size, e1, e2, langdir, 0,
                          Chk(Chk(acc, e2, 8, root, size), langdir + 12, 4, root, size)))

RECURSIVE ResTypes(_, _, _, _)
ResTypes(root, size, i, acc) ==
    IF Dead(acc) \/ i >= ResEntries(root) THEN acc
    ELSE LET e1 == root + 16 + 8 * i
             namedir == root + OffsetToDirectory(e1)
         IN  ResTypes(root, size, i + 1,
                 ResNames(root, size, e1, namedir, 0,
                          Chk(Chk(acc, e1, 8, root, size), namedir + 12, 4, root, size)))

dir_resource ==
    LET root == get_dir_and_size(IMAGE_FILE_RESOURCE_DIRECTORY)[1]
        size == get_dir_and_size(IMAGE_FILE_RESOURCE_DIRECTORY)[2]
    IN  IF root = NULL THEN Clean
        ELSE ResTypes(root, size, 0,
                 Chk(Emit(Clean, Line("resource", "Resources:", 0, 0, <<>>)),
                     root + 12, 4, root, size))

dump_dir_resource == Decode("resource", "resource", "tls", dir_resource)

(***************************************************************************)
(* dump_dir_tls (pe.c:1039)                                                *)
(***************************************************************************)
IMAGE_FILE_THREAD_LOCAL_STORAGE == 9

\* the loop at pe.c:1071
RECURSIVE TlsCallbacks(_, _)
TlsCallbacks(addr, acc) ==
    IF RVA(addr, 4) = NULL \/ Rd(RVA(addr, 4)) = 0 THEN acc
    ELSE TlsCallbacks(DWORD(addr + 4),
                      Emit(acc, Line("tls", "callback", Rd(RVA(addr, 4)), 0, <<>>)))

\* IMAGE_TLS_DIRECTORY32 is 24 bytes with AddressOfCallBacks at 12,
\* IMAGE_TLS_DIRECTORY64 is 40 bytes with AddressOfCallBacks at 24
dir_tls ==
    LET pdir == get_dir_and_size(IMAGE_FILE_THREAD_LOCAL_STORAGE)[1]
        size == get_dir_and_size(IMAGE_FILE_THREAD_LOCAL_STORAGE)[2]
        is64 == Magic = IMAGE_NT_OPTIONAL_HDR64_MAGIC
        AddressOfCallBacks == IF is64 THEN Rd(pdir + 24) ELSE Rd(pdir + 12)
        any == IF is64 THEN Rd(pdir + 24) # 0 \/ Rd(pdir + 28) # 0 ELSE Rd(pdir + 12) # 0
        a0 == Emit(Chk(Clean, pdir, IF is64 THEN 40 ELSE 24, pdir, size),
                   Line("tls", "Thread Local Storage", Rd(pdir), AddressOfCallBacks, <<>>))
    IN  IF pdir = NULL THEN Clean
        ELSE IF any THEN TlsCallbacks(DWORD(AddressOfCallBacks + DwordMod - ImageBase), a0)
        ELSE a0

dump_dir_tls == Decode("tls", "tls", "clr", dir_tls)

(***************************************************************************)
(* dump_dir_clr_header (pe.c:969): IMAGE_COR20_HEADER is 72 bytes           *)
(***************************************************************************)
IMAGE_DIRECTORY_ENTRY_COM_DESCRIPTOR == 14

dir_clr_header ==
    LET dir == get_dir_and_size(IMAGE_DIRECTORY_ENTRY_COM_DESCRIPTOR)[1]
        size == get_dir_and_size(IMAGE_DIRECTORY_ENTRY_COM_DESCRIPTOR)[2]
    IN  IF dir = NULL THEN Clean
        ELSE Emit(Emit(Chk(Clean, dir, 72, dir, size),
                       Line("clr", "CLR Header", Rd(dir), Rd(dir + 16), <<>>)),
                  Line("clr", "CLR Data Directory", Rd(dir + 8), Rd(dir + 12), <<>>))

dump_dir_clr_header == Decode("clr", "clr", "reloc", dir_clr_header)

(***************************************************************************)
(* dump_dir_reloc (pe.c:993)                                               *)
(***************************************************************************)
IMAGE_DIRECTORY_ENTRY_BASERELOC == 5

\* the loop at pe.c:1027 with i entries to go
RECURSIVE RelocEntries(_, _, _, _, _)
RelocEntries(rel, size, relocs, i, acc) ==
    IF i = 0 THEN acc
    ELSE RelocEntries(rel, size, relocs + 2, i - 1,
             Emit(Chk(acc, relocs, 2, rel, size),
                  Line("reloc", "off", Rd(relocs) % 4096, Rd(relocs) \div 4096, <<>>)))

\* the loop at pe.c:1022 from the block at blk on; the directory is size bytes at
\* rel.  A SizeOfBlock below 8 makes the count of entries wrap.
RECURSIVE RelocBlocks(_, _, _, _)
RelocBlocks(rel, size, blk, acc) ==
    IF ~(blk < rel + size - 8) THEN acc
    ELSE IF Rd(blk + 4) = 0 THEN Chk(acc, blk, 8, rel, size)
    ELSE IF Rd(blk + 4) < 8
    THEN Ub(Emit(Chk(acc, blk, 8, rel, size),
                 Line("reloc", "Page", Rd(blk), Rd(blk + 4), <<>>)),
            "runaway")
    ELSE RelocBlocks(rel, size, blk + 8 + 2 * ((Rd(blk + 4) - 8) \div 2),
             RelocEntries(rel, size, blk + 8, (Rd(blk + 4) - 8) \div 2,
                 Emit(Chk(acc, blk, 8, rel, size),
                      Line("reloc", "Page", Rd(blk), Rd(blk + 4), <<>>))))

dir_reloc ==
    LET rel == get_dir_and_size(IMAGE_DIRECTORY_ENTRY_BASERELOC)[1]
        size == get_dir_and_size(IMAGE_DIRECTORY_ENTRY_BASERELOC)[2]
    IN  IF rel = NULL THEN Clean
        ELSE RelocBlocks(rel, size, rel, Emit(Clean, Line("reloc", "Relocations", 0, 0, <<>>)))

dump_dir_reloc == Decode("reloc", "reloc", "except", dir_reloc)

(***************************************************************************)
(* dump_dir_exceptions (pe.c:691) and dump_x86_64_unwind_info (pe.c:586).   *)
(* struct unwind_info is 6 bytes: version and flags, prolog, count, frame,  *)
(* one opcode; an opcode is 2 bytes: offset, then code (low) and info.      *)
(***************************************************************************)
IMAGE_FILE_EXCEPTION_DIRECTORY == 3
IMAGE_FILE_MACHINE_AMD64 == 34404

UWOP_ALLOC_LARGE == 1
UWOP_SAVE_NONVOL == 4
UWOP_SAVE_NONVOL_FAR == 5
UWOP_SAVE_XMM128 == 8
UWOP_SAVE_XMM128_FAR == 9
UNW_FLAG_CHAININFO == 4

OpOffset(slot) == Rd(slot) % 256
OpCode(slot) == (Rd(slot) \div 256) % 16
OpInfo(slot) == Rd(slot) \div 4096

\* the slots of an opcode when a large allocation is always taken to have a
\* 16-bit operand
OpSlots_short(slot) ==
    IF OpCode(slot) \in {UWOP_ALLOC_LARGE, UWOP_SAVE_NONVOL, UWOP_SAVE_XMM128} THEN 2
    ELSE IF OpCode(slot) \in {UWOP_SAVE_NONVOL_FAR, UWOP_SAVE_XMM128_FAR} THEN 3
    ELSE 1

\* how many slots the opcode at slot takes (pe.c:624-676)
OpSlots(slot) ==
    IF OpCode(slot) = UWOP_ALLOC_LARGE THEN (IF OpInfo(slot) # 0 THEN 3 ELSE 2)
    ELSE IF OpCode(slot) \in {UWOP_SAVE_NONVOL, UWOP_SAVE_XMM128} THEN 2
    ELSE IF OpCode(slot) \in {UWOP_SAVE_NONVOL_FAR, UWOP_SAVE_XMM128_FAR} THEN 3
    ELSE 1

\* the loop at pe.c:621 from opcode i on; RVA checked the 6 bytes at info
RECURSIVE UnwindOpcodes(_, _, _)
UnwindOpcodes(info, i, acc) ==
    IF i >= Rd(info + 2) THEN acc
    ELSE LET slot == info + 4 + 2 * i
         IN  UnwindOpcodes(info, i + OpSlots(slot),
                 Emit(Chk(acc, slot, 2 * OpSlots(slot), info, 6),
                      Line("except", "opcode", OpOffset(slot), Rd(slot) \div 256, <<>>)))

x86_64_unwind_info(function, acc) ==
    LET UnwindData == Rd(function + 8)
        a0 == Emit(acc, Line("except", "Function", Rd(function), Rd(function + 4), <<>>))
        next == RVA(UnwindData - 1, 12)
        info == RVA(UnwindData, 6)
        a1 == Emit(a0, Line("except", "unwind info at", UnwindData, 0, <<>>))
        version == Rd(info) % 8
        flags == Rd(info) \div 8
        handler_data == info + 4 + 2 * ((Rd(info + 2) + 1) - ((Rd(info + 2) + 1) % 2))
        a2 == UnwindOpcodes(info, 0, Emit(a1, Line("except", "flags", flags, Rd(info + 1), <<>>)))
    IN  IF UnwindData % 2 = 1
        THEN IF next = NULL THEN Ub(Fail(a0, "chained function", FALSE), "null")
             ELSE Emit(a0, Line("except", "-> function", Rd(next), Rd(next + 4), <<>>))
        ELSE IF info = NULL THEN Ub(Fail(a1, "unwind info", FALSE), "null")
        ELSE IF version # 1
        THEN Emit(a1, Line("except", "*** unknown version", version, 0, <<>>))
        ELSE IF (flags \div UNW_FLAG_CHAININFO) % 2 = 1
        THEN Emit(Chk(a2, handler_data, 8, info, 6),
                  Line("except", "-> function", Rd(handler_data), Rd(handler_data + 4), <<>>))
        ELSE IF flags % 4 # 0
        THEN Emit(Chk(a2, handler_data, 4, info, 6),
                  Line("except", "handler", Rd(handler_data), 0, <<>>))
        ELSE a2

\* the loop at pe.c:703 from function i on
RECURSIVE UnwindFuncs(_, _, _, _)
UnwindFuncs(funcs, n, i, acc) ==
    IF Dead(acc) \/ i >= n THEN acc
    ELSE UnwindFuncs(funcs, n, i + 1, x86_64_unwind_info(funcs + 12 * i, acc))

dir_exceptions ==
    LET funcs == get_dir_and_size(IMAGE_FILE_EXCEPTION_DIRECTORY)[1]
        size == get_dir_and_size(IMAGE_FILE_EXCEPTION_DIRECTORY)[2]
    IN  IF funcs = NULL THEN Clean
        ELSE IF Rd(PE_nt_headers + 4) = IMAGE_FILE_MACHINE_AMD64
        THEN UnwindFuncs(funcs, size \div 12, 0,
                 Emit(Clean, Line("except", "Exception info", size \div 12, 0, <<>>)))
        ELSE Emit(Clean, Line("except", "Exception information not supported",
                              Rd(PE_nt_headers + 4), 0, <<>>))

dump_dir_exceptions == Decode("except", "except", "done", dir_exceptions)

(***************************************************************************)
(* Images for pe_dump: one section, virtual 4096..6144 at file offset 1024  *)
(* (file offset = address - 3072), every directory well-formed; then the    *)
(* same image with one field changed, or cut short.                         *)
(***************************************************************************)
DirEntry(magic, k) == 88 + (IF magic = IMAGE_NT_OPTIONAL_HDR64_MAGIC THEN 112 ELSE 96) + 8 * k

DumpHeaderCells(magic) ==
    {<<60, 64>>, <<64 + 6, 1>>, <<88, magic>>,
     <<64 + 4, IF magic = IMAGE_NT_OPTIONAL_HDR64_MAGIC THEN IMAGE_FILE_MACHINE_AMD64 ELSE 332>>,
     <<64 + 20, IF magic = IMAGE_NT_OPTIONAL_HDR64_MAGIC THEN 240 ELSE 224>>,
     <<88 + (IF magic = IMAGE_NT_OPTIONAL_HDR64_MAGIC THEN 108 ELSE 92), 16>>}
    \cup (LET sec == 88 + (IF magic = IMAGE_NT_OPTIONAL_HDR64_MAGIC THEN 240 ELSE 224)
          IN  {<<sec + 12, 4096>>, <<sec + 16, 2048>>, <<sec + 20, 1024>>})
    \cup UNION {{<<DirEntry(magic, d[1]), d[2]>>, <<DirEntry(magic, d[1]) + 4, d[3]>>} :
                  d \in {<<0, 4096, 40>>, <<1, 4608, 40>>, <<2, 5376, 256>>, <<3, 5888, 24>>,
                         <<5, 5760, 24>>, <<6, 5120, 56>>,
                         <<9, 5632, IF magic = IMAGE_NT_OPTIONAL_HDR64_MAGIC THEN 40 ELSE 24>>,
                         <<13, 4864, 64>>, <<14, 4944, 72>>}}

\* exports at 1024: two functions, the first named "f0", the second by ordinal
DumpExportCells ==
    {<<1036, 4600>>, <<1040, 1>>, <<1044, 2>>, <<1048, 1>>, <<1052, 4160>>, <<1056, 4224>>,
     <<1060, 4288>>, <<1088, 4400>>, <<1092, 4400>>, <<1152, 4352>>, <<1216, 0>>}

\* imports at 1536: one DLL, its thunks at 1664 (one by name, one by ordinal);
\* delay imports at 1792 with the same thunks; a CLR header at 1872
DumpImportCells(magic) ==
    {<<1536, 4736>>, <<1548, 4800>>, <<1552, 4736>>,
     <<1744, 7>>,
     <<1792, 1>>, <<1796, 4800>>, <<1804, 4736>>, <<1808, 4736>>,
     <<1872, 72>>, <<1888, 1>>}
    \cup (IF magic = IMAGE_NT_OPTIONAL_HDR64_MAGIC
          THEN {<<1664, 4816>>, <<1672, 5>>, <<1676, DwordMod \div 2>>}
          ELSE {<<1664, 4816>>, <<1668, DwordMod \div 2 + 5>>})

\* debug directory at 2048: a record of unknown type, then a MISC record with its data
\* at file offset 2176
DumpDebugCells ==
    {<<2088, IMAGE_DEBUG_TYPE_MISC>>, <<2092, 16>>, <<2100, 2176>>, <<2176, 1>>, <<2180, 16>>}

\* resources at 2304: type 6 (one block of 16 strings, "hi" and 15 empty ones,
\* 36 bytes at 2464) and type 11 (one block with one message, 24 bytes at 2504)
DumpResourceCells ==
    {<<2318, 2>>,
     <<2320, RT_STRING>>, <<2324, 32>>, <<2328, RT_MESSAGETABLE>>, <<2332, 96>>,
     <<2350, 1>>, <<2352, 1>>, <<2356, 56>>,
     <<2374, 1>>, <<2376, 1033>>, <<2380, 80>>,
     <<2384, 5536>>, <<2388, 36>>,
     <<2414, 1>>, <<2416, 1>>, <<2420, 120>>,
     <<2438, 1>>, <<2440, 1033>>, <<2444, 144>>,
     <<2448, 5576>>, <<2452, 24>>,
     <<2464, 2>>,
     <<2504, 1>>, <<2508, 1>>, <<2512, 1>>, <<2516, 16>>, <<2520, 8>>}

\* TLS at 2560 with one callback at 2608; relocations at 2688 (two blocks of two
\* entries); two functions at 2816, the first with unwind info at 2944 (one opcode),
\* the second chained to it
DumpOtherCells(magic) ==
    {<<2560, 1>>, <<2608, 4400>>,
     <<IF magic = IMAGE_NT_OPTIONAL_HDR64_MAGIC THEN 2584 ELSE 2572, 5680>>,
     <<2688, 4096>>, <<2692, 12>>, <<2696, 12292>>, <<2700, 4096>>, <<2704, 12>>,
     <<2708, 12293>>,
     <<2816, 4400>>, <<2820, 4420>>, <<2824, 6016>>,
     <<2828, 4420>>, <<2832, 4440>>, <<2836, 6017>>,
     <<2944, 1>>, <<2945, 4>>, <<2946, 1>>, <<2948, 4612>>}

DumpStrings ==
    (1280 :> <<"f", "0">>) @@ (1528 :> <<"d", "l", "l">>) @@ (1728 :> <<"k">>)
    @@ (1746 :> <<"i", "m", "p">>) @@ (2188 :> <<"e", "x", "e">>)
    @@ (2466 :> <<"h", "i">>) @@ (2480 :> <<"x">>) @@ (2504 :> <<"y">>) @@ (2524 :> <<"o", "k">>)

DumpCells(magic) ==
    Cells(DumpHeaderCells(magic) \cup DumpExportCells \cup DumpImportCells(magic)
          \cup DumpDebugCells \cup DumpResourceCells \cup DumpOtherCells(magic))

\* cells with the fields of patch written over them
Patched(cells, patch) ==
    [o \in DOMAIN cells \cup {c[1] : c \in patch} |->
        IF \E c \in patch : c[1] = o THEN (CHOOSE c \in patch : c[1] = o)[2] ELSE cells[o]]

\* a delay-import record with addresses relative to an image base of 8192: its
\* name, its tables, and one thunk by name at 1696
VaDelay ==
    {<<1792, 0>>, <<1796, 4800 + 8192>>, <<1804, 4768 + 8192>>, <<1808, 4768 + 8192>>,
     <<1696, 4816 + 8192>>}

\* unwind data whose opcode slots are those of stream: an opcode is its offset in
\* the prolog + 256 * code + 4096 * info, an operand slot here holds 1357
UnwindStream(stream) ==
    {<<2946, Len(stream)>>} \cup {<<2948 + 2 * (k - 1), stream[k]>> : k \in DOMAIN stream}

\* one field changed: nothing; the export name table, the export address table, an
\* import's thunks, a hint/name entry, the MISC record's data, the message table's
\* data, its entries, a relocation block's size do not resolve or point elsewhere;
\* the debug directory claims more bytes than its section holds; a string block of
\* fewer strings; unwind data that do not resolve, or with three opcodes; a thunk
\* table and the export name table that both do not resolve; an export directory
\* of 300 bytes whose second function is a forward to the string at 1280; a first
\* function whose address does not resolve; an import descriptor without a Name;
\* an import descriptor without an OriginalFirstThunk; one whose FirstThunk is
\* another table than its OriginalFirstThunk; one with that FirstThunk alone; the
\* delay-import record relative to the image base, the base in the field of the
\* image's layout, and in both halves of the 64-bit field; a second relocation
\* block of size zero; a relocation directory that ends with a block of no entries;
\* unwind data with the opcodes of one and two slots, and with those of three;
\* a first resource type named by the string at offset 6 of the directory, and
\* one of the numeric type 3; a string block of ordinal 2 with strings in its slots
\* 0 and 5, and a string after its 16 slots; a second relocation block that claims
\* four entries where the directory has two left; unwind data of two opcodes that
\* end with a large allocation, the operand of which would be the slot after them
DumpPatches(magic) ==
    { {},
      {<<1056, 0>>},
      {<<1052, 20000>>},
      {<<1536, 20000>>},
      {<<1664, 20000>>},
      {<<2100, 5000>>},
      {<<2448, 20000>>},
      {<<2516, 300>>},
      {<<2704, 4>>},
      {<<DirEntry(magic, IMAGE_FILE_DEBUG_DIRECTORY) + 4, 3000>>},
      {<<2388, 8>>},
      {<<2824, 20000>>},
      {<<2946, 3>>},
      {<<1664, 20000>>, <<1056, 0>>},
      {<<DirEntry(magic, IMAGE_FILE_EXPORT_DIRECTORY) + 4, 300>>, <<1092, 4352>>},
      {<<1088, 20000>>},
      {<<1548, 0>>},
      {<<1536, 0>>},
      {<<1552, 4740>>},
      {<<1536, 0>>, <<1552, 4740>>},
      VaDelay \cup {<<88 + (IF magic = IMAGE_NT_OPTIONAL_HDR64_MAGIC THEN 24 ELSE 28), 8192>>},
      VaDelay \cup {<<88 + 24, 8192>>, <<88 + 28, 8192>>},
      {<<2704, 0>>},
      {<<DirEntry(magic, IMAGE_DIRECTORY_ENTRY_BASERELOC) + 4, 20>>, <<2704, 8>>},
      UnwindStream(<<266, 1357, 13320, 1357, 20484, 770>>),
      UnwindStream(<<4372, 1357, 1357, 9488, 1357, 1357, 26636, 1357, 30985, 1357, 1357,
                     2565, 4609>>),
      {<<2320, DwordMod \div 2 + 6>>},
      {<<2320, 3>>},
      {<<2352, 2>>, <<2478, 1>>, <<2388, 40>>, <<2502, 1>>},
      {<<2704, 16>>},
      UnwindStream(<<4612, 266>>) }

DumpImages ==
    UNION {{Patched(DumpCells(magic), patch) : patch \in DumpPatches(magic)} :
              magic \in {IMAGE_NT_OPTIONAL_HDR32_MAGIC, IMAGE_NT_OPTIONAL_HDR64_MAGIC}}

\* the whole file; a copy cut inside the debug directory; a copy cut inside the
\* signature header
DumpLens == {4096, 2100, 80}
TruncatedLens == {2100}

DumpSects == {"", "ALL", "export", "import", "debug", "resource", "reloc", "except"}

InitDump ==
    /\ ulong_mod \in ULongMods
    /\ dump_total_len \in DumpLens
    /\ mem \in DumpImages
    /\ strs = DumpStrings
    /\ PE_nt_headers = NULL
    /\ call = NoCall
    /\ module = <<>>
    /\ dll_symbols = <<>>
    /\ dll_current_symbol = 0
    /\ hist = <<>>
    /\ opens = 0
    /\ pc = "pe_dump"
    /\ out = <<>>
    /\ globals \in [dumpsect : DumpSects, do_dumpheader : BOOLEAN]
    /\ fault = {}
    /\ fails = {}
    /\ ref = [done |-> FALSE, out |-> <<>>]
    /\ NoIme

\* the tool is run again on a copy of the same file cut short
truncated_copy(len) ==
    /\ pc = "done"
    /\ ~ref.done
    /\ len < dump_total_len
    /\ ref' = [done |-> TRUE, out |-> out]
    /\ dump_total_len' = len
    /\ PE_nt_headers' = NULL
    /\ pc' = "pe_dump"
    /\ out' = <<>>
    /\ fault' = {}
    /\ fails' = {}
    /\ UNCHANGED <<ulong_mod, mem, strs, call, symvars, imevars, globals>>

NextDump ==
    \/ pe_dump
    \/ dump_dir_imported_functions
    \/ dump_dir_delay_imported_functions
    \/ dump_dir_exported_functions
    \/ dump_dir_debug
    \/ dump_dir_resource
    \/ dump_dir_tls
    \/ dump_dir_clr_header
    \/ dump_dir_reloc
    \/ dump_dir_exceptions
    \/ \E len \in TruncatedLens : truncated_copy(len)

SpecDump == InitDump /\ [][NextDump]_vars

(***************************************************************************)
(* What the report of pe_dump is held to                                   *)
(***************************************************************************)
\* the lines of a report that one decoder printed
LinesOf(report, dec) == SelectSeq(report, LAMBDA l : l.dec = dec)

\* the decoders that read image bytes by offsets they compute themselves
RawReaders == {"export", "resource", "except", "reloc"}

\* the debug data directory as the header records it, and whether it claims bytes
\* beyond the end of the file
DebugEntry ==
    IF Rd(88) = IMAGE_NT_OPTIONAL_HDR64_MAGIC
    THEN DataDirectory64(IMAGE_FILE_DEBUG_DIRECTORY)
    ELSE DataDirectory32(IMAGE_FILE_DEBUG_DIRECTORY)
DebugPastEnd ==
    /\ PE_nt_headers # NULL
    /\ RVA(DebugEntry.VirtualAddress, 1) # NULL
    /\ RVA(DebugEntry.VirtualAddress, 1) + DebugEntry.Size > dump_total_len

\* C5: in no run of pe_dump and of the directory decoders is an absent (NULL)
\* result of the Image Accessor or of RVA resolution dereferenced; the analysis
\* does not crash on malformed input.
ClaimC5 ==
    /\ pc # "crashed"
    /\ \A f \in fault : f[2] # "null"

\* C6: every raw read of image bytes by the export, resource, message table,
\* string table, unwind and relocation decoders lies inside the slice the accessor
\* checked for it: none reads beyond the length it passed to PRD / RVA.
ClaimC6 ==
    \A f \in fault : f[1] \in RawReaders => f[2] \notin {"oob", "wild", "runaway"}

\* C7: whenever an RVA resolution fails inside the decoder of a present directory,
\* the decoder has printed a diagnostic for it, and the run goes on to the
\* decoders after it: it does not end in that decoder.
ClaimC7 ==
    fails # {} => /\ \A f \in fails : f[3]
                  /\ pc \notin {"crashed", "fatal"}

\* C8: the run on a copy whose debug directory claims more bytes than the file
\* holds does not crash, prints the Exports section of the run on the whole image,
\* and prints exactly one diagnostic line for the debug directory.
ClaimC8 ==
    (/\ ref.done
     /\ pc \in {"done", "crashed", "fatal"}
     /\ globals.dumpsect = "ALL"
     /\ DebugPastEnd)
    => /\ pc = "done"
       /\ LinesOf(out, "export") = LinesOf(ref.out, "export")
       /\ Len(LinesOf(out, "debug")) = 1

\* the records the debug decoder printed
DebugRecords == SelectSeq(out, LAMBDA l : l.dec = "debug" /\ l.what = "Directory")

\* C13: the layout the magic selects is the one every decoder reads: once the
\* debug decoder has run on a debug directory that resolves, it has printed as many
\* records as the Size of the debug entry of that layout holds (28 bytes each), on
\* a 64-bit image the Size of the 64-bit layout's entry.
ClaimC13 ==
    (/\ pc = "resource"
     /\ Wanted("debug")
     /\ PE_nt_headers # NULL
     /\ get_dir(IMAGE_FILE_DEBUG_DIRECTORY) # NULL)
    => Len(DebugRecords) = DebugEntry.Size \div 28

\* the export decoder has gone through the function slots of the mapped image
ExportRan ==
    /\ pc = "debug"
    /\ Wanted("export")
    /\ PE_nt_headers # NULL
    /\ get_dir(IMAGE_FILE_EXPORT_DIRECTORY) # NULL
    /\ GrabFunc(get_dir(IMAGE_FILE_EXPORT_DIRECTORY)) # NULL

\* slot i of the function-address table: its RVA, the byte it resolves to, whether
\* that byte lies in the export directory, and what the decoder printed for it
SlotRva(i) == Rd(GrabFunc(get_dir(IMAGE_FILE_EXPORT_DIRECTORY)) + 4 * i)
SlotByte(i) == RVA(SlotRva(i), 1)
SlotInDirectory(i) ==
    /\ SlotByte(i) # NULL
    /\ SlotByte(i) >= get_dir_and_size(IMAGE_FILE_EXPORT_DIRECTORY)[1]
    /\ SlotByte(i) < get_dir_and_size(IMAGE_FILE_EXPORT_DIRECTORY)[1]
                        + get_dir_and_size(IMAGE_FILE_EXPORT_DIRECTORY)[2]
SlotLines(what, i) ==
    SelectSeq(out, LAMBDA l :
        /\ l.dec = "export"
        /\ l.what = what
        /\ l.b = DWORD(ExpBase(get_dir(IMAGE_FILE_EXPORT_DIRECTORY)) + i))
PresentSlots ==
    {i \in 0 .. ExpNumberOfFunctions(get_dir(IMAGE_FILE_EXPORT_DIRECTORY)) - 1 : SlotRva(i) # 0}

\* C15 as stated: a present slot is reported as forwarded exactly when its RVA
\* resolves into the export directory's range, and for a forwarded slot the forward
\* target is printed instead of an address.
ClaimC15 ==
    ExportRan =>
        \A i \in PresentSlots :
            /\ SlotInDirectory(i) <=> SlotLines("forward", i) # <<>>
            /\ SlotInDirectory(i) =>
                  \A k \in DOMAIN SlotLines("entry", i) : SlotLines("entry", i)[k].a # SlotRva(i)

\* what the decoder does print: every present slot has its RVA and ordinal printed
\* once, and a forward target, the string the RVA resolves to, follows exactly when
\* the RVA resolves into the export directory's range [start, start + size)
ForwardsFollowEntries ==
    ExportRan =>
        \A i \in PresentSlots :
            /\ Len(SlotLines("entry", i)) = 1
            /\ SlotLines("entry", i)[1].a = SlotRva(i)
            /\ IF SlotInDirectory(i)
               THEN /\ Len(SlotLines("forward", i)) = 1
                    /\ SlotLines("forward", i)[1].s = RdStr(SlotByte(i))
               ELSE SlotLines("forward", i) = <<>>

\* the import decoder has walked the descriptors of the mapped image
ImportRan ==
    /\ pc = "delay"
    /\ Wanted("import")
    /\ PE_nt_headers # NULL
    /\ get_dir(IMAGE_FILE_IMPORT_DIRECTORY) # NULL

\* descriptor k of the import directory, whether all its five fields are zero, and
\* the descriptors in front of the first that is
ImportDesc(k) == get_dir(IMAGE_FILE_IMPORT_DIRECTORY) + 20 * k
AllZero(d) == \A f \in {0, 4, 8, 12, 16} : Rd(d + f) = 0
MaxDescs == 3
BeforeSentinel ==
    {k \in 0 .. MaxDescs : \A h \in 0 .. k : ~AllZero(ImportDesc(h))}

\* the descriptors the decoder printed, by their offset in the file
DecodedDescs ==
    {l.a : l \in {out[n] : n \in {m \in DOMAIN out :
                                    out[m].dec = "import" /\ out[m].what = "offset"}}}

\* C16: the import walk decodes exactly the descriptors in front of the first
\* all-zero descriptor: a descriptor with a non-zero field is decoded and does not
\* end the walk.
ClaimC16 ==
    ImportRan => DecodedDescs = {ImportDesc(k) : k \in BeforeSentinel}

\* the thunk table the rule of C17 selects for the descriptor at d: the original
\* first thunk when the field is not zero, else the first thunk
ThunkSource(d) == IF Rd(d) # 0 THEN RVA(Rd(d), 4) ELSE RVA(Rd(d + 16), 4)

\* what the walk of the thunks at il prints
ThunkLines(il) ==
    IF Rd(88) = IMAGE_NT_OPTIONAL_HDR64_MAGIC
    THEN thunk_data64("import", il, 0, Clean).lines
    ELSE thunk_data32("import", il, 0, 0, Clean).lines

\* the image imports from one DLL
OneImport == BeforeSentinel = {0} /\ Rd(ImportDesc(0) + 12) # 0 /\ Rd(ImportDesc(0) + 16) # 0

\* C17: after the size line and the descriptor's line, the import decoder has
\* printed the thunks of the original first thunk whenever that field is not zero,
\* those of the first thunk only when it is zero, and the diagnostic alone when the
\* selected table does not resolve; it does not fall back from an original first
\* thunk that does not resolve.
InvC17 ==
    (ImportRan /\ OneImport) =>
        SubSeq(LinesOf(out, "import"), 3, Len(LinesOf(out, "import")))
          = IF ThunkSource(ImportDesc(0)) = NULL
            THEN <<Line("import", "Can't grab thunk data, going to next imported DLL",
                        0, 0, <<>>)>>
            ELSE ThunkLines(ThunkSource(ImportDesc(0)))

\* the decoder met an original first thunk that does not resolve beside a first
\* thunk that does
WitnessC17 ==
    /\ ImportRan
    /\ OneImport
    /\ Rd(ImportDesc(0)) # 0
    /\ RVA(Rd(ImportDesc(0)), 4) = NULL
    /\ RVA(Rd(ImportDesc(0) + 16), 4) # NULL

\* the delay-import decoder has walked the records of the mapped image
DelayRan ==
    /\ pc = "export"
    /\ Wanted("import")
    /\ PE_nt_headers # NULL
    /\ get_dir(IMAGE_DIRECTORY_ENTRY_DELAY_IMPORT) # NULL

\* the first delay-import record, and the correction its attributes ask for: none
\* when bit 0 is set, else the image base of the layout the magic selects
DelayDesc == get_dir(IMAGE_DIRECTORY_ENTRY_DELAY_IMPORT)
DelayBase ==
    IF Rd(88) = IMAGE_NT_OPTIONAL_HDR64_MAGIC THEN Rd(OptionalHeader + 24)
    ELSE Rd(OptionalHeader + 28)
DelayCorrection == IF Rd(DelayDesc) % 2 = 1 THEN 0 ELSE DelayBase
Corrected(addr) == RVA(DWORD(addr + DwordMod - DelayCorrection), 4)

\* the thunks of the record's hint/name table in front of its terminator
MaxThunks == 3
DelayStride == IF Rd(88) = IMAGE_NT_OPTIONAL_HDR64_MAGIC THEN 8 ELSE 4
DelayThunk(t) == Corrected(Rd(DelayDesc + 16)) + DelayStride * t
DelayThunks ==
    {t \in 0 .. MaxThunks - 1 :
        \A h \in 0 .. t : Rd(DelayThunk(h)) # 0 \/ (DelayStride = 8 /\ Rd(DelayThunk(h) + 4) # 0)}
ByOrdinal(t) == Rd(DelayThunk(t) + DelayStride - 4) >= DwordMod \div 2

\* C18: for a delay-import record whose corrected addresses resolve, the decoder
\* has printed the module name found at szName less the correction, has walked the
\* table at pINT less the correction, and has printed for every thunk by name the
\* hint and name found at the thunk's address less the correction; on 32-bit and on
\* 64-bit images.
ClaimC18 ==
    (/\ DelayRan
     /\ Rd(DelayDesc + 4) # 0 /\ Rd(DelayDesc + 12) # 0 /\ Rd(DelayDesc + 16) # 0
     /\ Corrected(Rd(DelayDesc + 4)) # NULL
     /\ Corrected(Rd(DelayDesc + 16)) # NULL)
    => /\ \E n \in DOMAIN out :
             /\ out[n].dec = "delay" /\ out[n].what = "offset" /\ out[n].a = DelayDesc
             /\ out[n].s = RdStr(Corrected(Rd(DelayDesc + 4)))
       /\ \A t \in DelayThunks :
             (~ByOrdinal(t) /\ Corrected(Rd(DelayThunk(t))) # NULL) =>
                 \E n \in DOMAIN out :
                     /\ out[n].dec = "delay" /\ out[n].what = "by name"
                     /\ out[n].b = Rd(DelayThunk(t))
                     /\ out[n].a = Rd(Corrected(Rd(DelayThunk(t))))
                     /\ out[n].s = RdStr(Corrected(Rd(DelayThunk(t))) + 2)

\* the relocation decoder has walked the blocks of the mapped image and returned
RelocRan ==
    /\ pc = "except"
    /\ Wanted("reloc")
    /\ PE_nt_headers # NULL
    /\ get_dir(IMAGE_DIRECTORY_ENTRY_BASERELOC) # NULL

\* where block n of the directory starts when each block ends with its last entry,
\* and the bytes of the directory left from there
RECURSIVE RelocBlockAt(_)
RelocBlockAt(n) ==
    IF n = 0 THEN get_dir(IMAGE_DIRECTORY_ENTRY_BASERELOC)
    ELSE RelocBlockAt(n - 1) + 8 + 2 * ((Rd(RelocBlockAt(n - 1) + 4) - 8) \div 2)
RelocRemaining(n) ==
    get_dir_and_size(IMAGE_DIRECTORY_ENTRY_BASERELOC)[1]
        + get_dir_and_size(IMAGE_DIRECTORY_ENTRY_BASERELOC)[2] - RelocBlockAt(n)

\* the blocks the decoder printed
RelocPages == Len(SelectSeq(out, LAMBDA l : l.dec = "reloc" /\ l.what = "Page"))

\* C19: when the relocation walk has ended, every block it decoded started with at
\* least 8 bytes of the directory left, and fewer than 8 bytes are left where it
\* stopped: it stopped for no other reason.
ClaimC19 ==
    RelocRan =>
        /\ \A n \in 0 .. RelocPages - 1 : RelocRemaining(n) >= 8
        /\ RelocRemaining(RelocPages) < 8

\* the exception decoder has printed the unwind data of the first function of an
\* AMD64 image, the only function with opcodes of its own
UnwindRan ==
    /\ pc = "done"
    /\ Wanted("except")
    /\ PE_nt_headers # NULL
    /\ Rd(PE_nt_headers + 4) = IMAGE_FILE_MACHINE_AMD64
    /\ get_dir(IMAGE_FILE_EXCEPTION_DIRECTORY) # NULL
    /\ get_dir_and_size(IMAGE_FILE_EXCEPTION_DIRECTORY)[2] = 24
    /\ Rd(get_dir(IMAGE_FILE_EXCEPTION_DIRECTORY) + 8) % 2 = 0
    /\ Rd(get_dir(IMAGE_FILE_EXCEPTION_DIRECTORY) + 20) % 2 = 1
    /\ RVA(Rd(get_dir(IMAGE_FILE_EXCEPTION_DIRECTORY) + 8), 6) # NULL
    /\ Rd(RVA(Rd(get_dir(IMAGE_FILE_EXCEPTION_DIRECTORY) + 8), 6)) % 8 = 1

\* slot n of the first function's opcode stream, and the length of the stream
UnwindSlot(n) == RVA(Rd(get_dir(IMAGE_FILE_EXCEPTION_DIRECTORY) + 8), 6) + 4 + 2 * n
UnwindCount == Rd(RVA(Rd(get_dir(IMAGE_FILE_EXCEPTION_DIRECTORY) + 8), 6) + 2)

\* the slots the encoding gives each opcode: code 0 push non-volatile, 1 large
\* allocation, 2 small allocation, 3 set frame register, 4 save non-volatile, 5 the
\* same far, 8 save xmm128, 9 the same far, 10 push machine frame
DocumentedSlots(code, info) ==
    IF code = 1 THEN (IF info = 0 THEN 2 ELSE 3)
    ELSE IF code = 4 \/ code = 8 THEN 2
    ELSE IF code = 5 \/ code = 9 THEN 3
    ELSE 1

\* the slots at which opcodes start, from slot n on
RECURSIVE OpcodeStarts(_)
OpcodeStarts(n) ==
    IF n >= UnwindCount THEN <<>>
    ELSE <<n>> \o OpcodeStarts(n + DocumentedSlots((Rd(UnwindSlot(n)) \div 256) % 16,
                                                   Rd(UnwindSlot(n)) \div 4096))

\* the opcodes the decoder printed
PrintedOpcodes == SelectSeq(out, LAMBDA l : l.dec = "except" /\ l.what = "opcode")

\* C20: the decoder has printed one opcode for each slot at which the encoding
\* starts an opcode, in order, and none for an operand slot: each opcode took the
\* documented number of slots (1, large allocation 2 or 3 by info, save 2, far 3).
InvC20 ==
    UnwindRan =>
        /\ Len(PrintedOpcodes) = Len(OpcodeStarts(0))
        /\ \A k \in DOMAIN PrintedOpcodes :
              /\ PrintedOpcodes[k].a = Rd(UnwindSlot(OpcodeStarts(0)[k])) % 256
              /\ PrintedOpcodes[k].b = Rd(UnwindSlot(OpcodeStarts(0)[k])) \div 256

\* a stream with a large allocation of three slots and a far save was printed
WitnessC20 ==
    /\ UnwindRan
    /\ UnwindCount = 13
    /\ Len(PrintedOpcodes) = 6
    /\ \E k \in DOMAIN PrintedOpcodes :
          PrintedOpcodes[k].b % 16 = UWOP_ALLOC_LARGE /\ PrintedOpcodes[k].b \div 16 # 0

\* the resource decoder has walked the directory of the mapped image and returned
ResourceRan ==
    /\ pc = "tls"
    /\ Wanted("resource")
    /\ PE_nt_headers # NULL
    /\ get_dir(IMAGE_FILE_RESOURCE_DIRECTORY) # NULL

\* the lines the resource decoder printed, the lines at which a leaf's heading
\* ends, and the line before which the leaf at n ends
ResLines == LinesOf(out, "resource")
LeafHeads == {n \in DOMAIN ResLines : ResLines[n].what = "Language="}
LeafEnd(n) ==
    IF \E m \in LeafHeads : m > n
    THEN (CHOOSE m \in LeafHeads : m > n /\ \A o \in LeafHeads : o > n => m <= o) - 2
    ELSE Len(ResLines) + 1
LeafBody(n) == {ResLines[m] : m \in n + 1 .. LeafEnd(n) - 1}

\* C21: every leaf of a numeric type 6 was printed by the string-table decoder
\* alone, every leaf of a numeric type 11 by the message-table decoder alone, and
\* every other leaf, those of a type named by a string included, as one opaque
\* byte dump.
InvC21 ==
    ResourceRan =>
        \A n \in LeafHeads :
            IF ResLines[n - 2].what = "type" /\ ResLines[n - 2].a = RT_STRING
            THEN \A l \in LeafBody(n) : l.what = "string"
            ELSE IF ResLines[n - 2].what = "type" /\ ResLines[n - 2].a = RT_MESSAGETABLE
            THEN \A l \in LeafBody(n) : l.what \in {"message", "message L"}
            ELSE /\ LeafEnd(n) = n + 2
                 /\ ResLines[n + 1].what \in {"data", "data NULL"}

\* a type named by a string whose low bits are 6 was dumped as bytes, and the
\* message table after it by its decoder
WitnessC21 ==
    /\ ResourceRan
    /\ \E n \in LeafHeads : /\ ResLines[n - 2].what = "type name"
                            /\ NameOffset(get_dir(IMAGE_FILE_RESOURCE_DIRECTORY) + 16) = RT_STRING
                            /\ ResLines[n + 1].what = "data"
    /\ \E n \in LeafHeads : /\ ResLines[n - 2].what = "type"
                            /\ ResLines[n - 2].a = RT_MESSAGETABLE
                            /\ \E l \in LeafBody(n) : l.what = "message"

\* the leaf of the first type of the resource directory, which has one name and
\* one language: its name entry, its data entry, its bytes and their number
StrName ==
    get_dir(IMAGE_FILE_RESOURCE_DIRECTORY)
        + OffsetToDirectory(get_dir(IMAGE_FILE_RESOURCE_DIRECTORY) + 16) + 16
StrEntry ==
    get_dir(IMAGE_FILE_RESOURCE_DIRECTORY)
        + Rd(get_dir(IMAGE_FILE_RESOURCE_DIRECTORY) + OffsetToDirectory(StrName) + 16 + 4)
StrData == RVA(Rd(StrEntry), Rd(StrEntry + 4))
StrSize == Rd(StrEntry + 4)

\* where slot k of the block starts: each slot is a length and that many characters
RECURSIVE SlotStarts(_, _)
SlotStarts(ptr, k) ==
    IF k > 16 THEN <<>> ELSE <<ptr>> \o SlotStarts(ptr + 2 + 2 * Rd(ptr), k + 1)
StrSlot(k) == SlotStarts(StrData, 0)[k + 1]

\* the first type is the string table, and the 16 slots of its block lie in the
\* bytes of the leaf
StringLeaf ==
    /\ ResourceRan
    /\ ~NameIsString(get_dir(IMAGE_FILE_RESOURCE_DIRECTORY) + 16)
    /\ ResId(get_dir(IMAGE_FILE_RESOURCE_DIRECTORY) + 16) = RT_STRING
    /\ ~NameIsString(StrName)
    /\ StrData # NULL
    /\ StrSlot(16) <= StrData + StrSize

\* the slots of the block that hold a string, in order, and the strings the
\* decoder printed
RECURSIVE FullSlots(_, _)
FullSlots(ptr, k) ==
    IF k >= 16 THEN <<>>
    ELSE (IF Rd(ptr) > 0 THEN <<k>> ELSE <<>>) \o FullSlots(ptr + 2 + 2 * Rd(ptr), k + 1)
PrintedStrings == SelectSeq(out, LAMBDA l : l.dec = "resource" /\ l.what = "string")

\* C22: the strings printed for a block of ordinal id are those of its non-empty
\* slots among the first 16, in order, the one at slot k under the number
\* (id - 1) * 16 + k; no slot after the 16th is decoded.
InvC22 ==
    StringLeaf =>
        /\ Len(PrintedStrings) = Len(FullSlots(StrData, 0))
        /\ \A n \in DOMAIN PrintedStrings :
              /\ PrintedStrings[n].a
                     = DWORD((ResId(StrName) + DwordMod - 1) * 16 + FullSlots(StrData, 0)[n])
              /\ PrintedStrings[n].b = Rd(StrSlot(FullSlots(StrData, 0)[n]))
              /\ PrintedStrings[n].s = RdStr(StrSlot(FullSlots(StrData, 0)[n]) + 2)

\* block 2 with strings in its slots 0 and 5 was printed as strings 16 and 21, and
\* the string after its 16th slot was not
WitnessC22 ==
    /\ StringLeaf
    /\ ResId(StrName) = 2
    /\ Rd(StrSlot(16)) > 0
    /\ Len(PrintedStrings) = 2
    /\ PrintedStrings[1].a = 16 /\ PrintedStrings[1].s = <<"h", "i">>
    /\ PrintedStrings[2].a = 21 /\ PrintedStrings[2].s = <<"x">>

(***************************************************************************)
(* What the symbol enumerator is held to across images                     *)
(***************************************************************************)
\* the latest dll_open returned without a list: its image has no export
\* directory, or one of its three tables does not resolve
NotBuilt == pc = "run" /\ opens > 0 /\ PE_nt_headers # NULL /\ grab_sym.ret # "built"

\* C23: after a dll_open on an image without an export directory, or whose name,
\* ordinal or address table does not resolve, dll_next_symbol answers end of
\* sequence: it hands out no symbol that an earlier dll_open built.
ClaimC23 ==
    (NotBuilt /\ call.fn = "dll_next_symbol") => call.ret = 1 /\ hist = <<>>

\* C24: whenever do_grab_sym has gone through its two loops, it has written no
\* more symbols than NumberOfFunctions: the assertion j <= NumberOfFunctions has
\* held, and the terminator at index j lies within the NumberOfFunctions + 1
\* entries allocated.
ClaimC24 ==
    (/\ opens > 0
     /\ pc \in {"run", "aborted", "crashed", "fatal"}
     /\ PE_nt_headers # NULL
     /\ grab_sym.ret = "built")
    => /\ Len(grab_sym.syms) <= ExpNumberOfFunctions(get_dir(IMAGE_FILE_EXPORT_DIRECTORY))
       /\ ~grab_sym.failed
       /\ pc # "aborted"

\* C25: the relocation walk is bounded: whatever SizeOfBlock holds, the count of
\* entries of a block does not wrap, the walk ends, and no entry is read at or
\* beyond the end of the directory.
ClaimC25 ==
    /\ <<"reloc", "runaway">> \notin fault
    /\ <<"reloc", "oob">> \notin fault
    /\ <<"reloc", "wild">> \notin fault
    /\ \A n \in DOMAIN out : (out[n].dec = "reloc" /\ out[n].what = "Page") => out[n].b >= 8

\* the slots the decoder went through for the opcodes it printed: each opcode's
\* own slot and the operand slots it read
RECURSIVE SlotsRead(_)
SlotsRead(ops) ==
    IF ops = <<>> THEN 0
    ELSE DocumentedSlots(Head(ops).b % 16, Head(ops).b \div 16) + SlotsRead(Tail(ops))

\* C26: the opcode cursor stays inside the opcode array: the slots the decoder
\* read for the opcodes it printed, operands included, are the count slots of the
\* record and no more, so the loop ends with its cursor at count.
ClaimC26 ==
    UnwindRan => SlotsRead(PrintedOpcodes) = UnwindCount

(***************************************************************************)
(* The input method of the Mac driver (dlls/winemac.drv/ime.c).            *)
(*                                                                         *)
(* An input context is a number, 0 is the NULL context.  imm32 keeps the   *)
(* INPUTCONTEXT of a context (imc) and hands the messages of its message   *)
(* buffer to the context's window as ImmGenerateMessage is called (sent).  *)
(* Allocations are taken to succeed.  A BOOL is 1 or 0.  A character is    *)
(* its code, a virtual key its name, a set of GCS_ flags the set of their  *)
(* names.                                                                  *)
(***************************************************************************)
\* ime.c:46, its low word
FROM_MACDRV == 4919

MaxSelected == 3
MaxSent == 4

TRANSMSG(msg, wParam, lParam) == [message |-> msg, wParam |-> wParam, lParam |-> lParam]
LOWORD(uVKey) == uVKey[2]
MAKELONG(lo, hi) == <<lo, hi % 65536>>

\* RealIMC (ime.c:80)
RealIMC(hIMC) ==
    IF hIMC = FROM_MACDRV
    THEN IF \E i \in 1 .. hSelectedCount : hSelectedFrom[i] = focus THEN focus ELSE 0
    ELSE hIMC

\* updateCompStr (ime.c:145) and updateResultStr (ime.c:291) on a composition
\* string that exists: one string is replaced, the other fields are carried over
updateCompStr(old, compstr) == [old EXCEPT !.CompStr = compstr]
updateResultStr(old, resultstr) == [old EXCEPT !.ResultStr = resultstr]

\* GenerateIMEMessage (ime.c:429) on the messages generated so far
GenerateIMEMessage(msgs, hIMC, msg, wParam, lParam) ==
    IF RealIMC(hIMC) = 0 THEN msgs
    ELSE [msgs EXCEPT ![RealIMC(hIMC)] = Append(@, TRANSMSG(msg, wParam, lParam))]

\* GenerateMessageToTransKey (ime.c:495): the first DWORD of the buffer is its size
\* in messages
GenerateMessageToTransKey(lpTransBuf, uNumTranMsgs, msg, wParam, lParam) ==
    IF uNumTranMsgs + 1 >= lpTransBuf.size
    THEN [ret |-> 0, buf |-> lpTransBuf, uNumTranMsgs |-> uNumTranMsgs]
    ELSE [ret |-> 1,
          buf |-> [lpTransBuf EXCEPT !.msgs = Append(@, TRANSMSG(msg, wParam, lParam))],
          uNumTranMsgs |-> uNumTranMsgs + 1]

\* IME_RemoveFromSelected (ime.c:513): the first entry that is hIMC goes
IME_RemoveFromSelected(hIMC) ==
    IF \E i \in 1 .. hSelectedCount : hSelectedFrom[i] = hIMC
    THEN LET i == CHOOSE i \in 1 .. hSelectedCount :
                      /\ hSelectedFrom[i] = hIMC
                      /\ \A k \in 1 .. i - 1 : hSelectedFrom[k] # hIMC
         IN  [ret |-> 1,
              from |-> SubSeq(hSelectedFrom, 1, i - 1)
                          \o SubSeq(hSelectedFrom, i + 1, hSelectedCount),
              count |-> hSelectedCount - 1]
    ELSE [ret |-> 0, from |-> hSelectedFrom, count |-> hSelectedCount]

\* IME_AddToSelected (ime.c:529)
IME_AddToSelected(hIMC) ==
    [from |-> Append(hSelectedFrom, hIMC), count |-> hSelectedCount + 1]

\* ImeDestroy (ime.c:601)
ImeDestroy ==
    /\ pc = "run"
    /\ hSelectedFrom' = <<>>
    /\ hSelectedCount' = 0
    /\ selected' = {}
    /\ call' = [fn |-> "ImeDestroy", a |-> 0, b |-> 0, ret |-> 1]
    /\ UNCHANGED <<imgvars, PE_nt_headers, symvars, dumpvars, pc, out,
                   focus, imc, sent, lpdwTransKey>>

\* ImeSelect (ime.c:659)
ImeSelect(hIMC, fSelect) ==
    /\ pc = "run"
    /\ UNCHANGED <<imgvars, PE_nt_headers, symvars, dumpvars, pc, out,
                   focus, sent, lpdwTransKey>>
    /\ IF hIMC = FROM_MACDRV
       THEN /\ call' = [fn |-> "ImeSelect", a |-> hIMC, b |-> fSelect, ret |-> 0]
            /\ UNCHANGED <<hSelectedFrom, hSelectedCount, imc, selected>>
       ELSE IF hIMC = 0
       THEN /\ call' = [fn |-> "ImeSelect", a |-> hIMC, b |-> fSelect, ret |-> 1]
            /\ UNCHANGED <<hSelectedFrom, hSelectedCount, imc, selected>>
       ELSE IF fSelect = 0
       THEN /\ call' = [fn |-> "ImeSelect", a |-> hIMC, b |-> fSelect,
                        ret |-> IME_RemoveFromSelected(hIMC).ret]
            /\ hSelectedFrom' = IME_RemoveFromSelected(hIMC).from
            /\ hSelectedCount' = IME_RemoveFromSelected(hIMC).count
            /\ selected' = selected \ {hIMC}
            /\ UNCHANGED imc
       ELSE /\ hSelectedCount < MaxSelected
            /\ call' = [fn |-> "ImeSelect", a |-> hIMC, b |-> fSelect, ret |-> 1]
            /\ hSelectedFrom' = IME_AddToSelected(hIMC).from
            /\ hSelectedCount' = IME_AddToSelected(hIMC).count
            /\ selected' = selected \cup {hIMC}
            /\ imc' = [imc EXCEPT ![hIMC].hPrivate =
                          [bInComposition |-> FALSE, bInternalState |-> FALSE, repeat |-> 0]]

\* ImeSetCompositionString (ime.c:943); lpComp is <<>> for NULL
ImeSetCompositionString(hIMC, dwIndex, lpComp, dwCompLen) ==
    LET h == RealIMC(hIMC)
        start == dwIndex = "SCS_SETSTR" /\ ~imc[h].hPrivate.bInComposition
        s1 == IF start
              THEN GenerateIMEMessage(sent, hIMC, "WM_IME_STARTCOMPOSITION", 0, {})
              ELSE sent
        given == dwCompLen # 0 /\ lpComp # <<>>
    IN  /\ pc = "run"
        /\ UNCHANGED <<imgvars, PE_nt_headers, symvars, dumpvars, pc, out,
                       hSelectedFrom, hSelectedCount, focus, selected, lpdwTransKey>>
        /\ IF h = 0
           THEN /\ call' = [fn |-> "ImeSetCompositionString", a |-> hIMC, b |-> 0, ret |-> 0]
                /\ UNCHANGED <<imc, sent>>
           ELSE /\ call' = [fn |-> "ImeSetCompositionString", a |-> hIMC, b |-> 0, ret |-> 1]
                /\ imc' = IF dwIndex # "SCS_SETSTR" THEN imc
                          ELSE [imc EXCEPT
                                   ![h].hCompStr =
                                       updateCompStr(@, IF given
                                                        THEN SubSeq(lpComp, 1, dwCompLen \div 2)
                                                        ELSE <<>>),
                                   ![h].hPrivate.bInComposition = TRUE]
                /\ sent' = IF dwIndex # "SCS_SETSTR"
                           THEN GenerateIMEMessage(s1, hIMC, "WM_IME_COMPOSITION", 0, {})
                           ELSE IF given
                           THEN GenerateIMEMessage(s1, hIMC, "WM_IME_COMPOSITION", lpComp[1],
                                    {"GCS_COMPSTR", "GCS_COMPCLAUSE", "GCS_COMPATTR",
                                     "GCS_DELTASTART"})
                           ELSE GenerateIMEMessage(s1, hIMC, "WM_IME_COMPOSITION", 0,
                                    {"GCS_COMPSTR"})
                /\ \A c \in Contexts : Len(sent'[c]) <= MaxSent

\* the body of NotifyIME (ime.c:758) on the input contexts cs: the contexts and the
\* messages it leaves, and its result
notify(cs, hIMC, dwAction, dwIndex, dwValue) ==
    LET h == RealIMC(hIMC)
        lpIMC == cs[h]
        myPrivate == cs[h].hPrivate
    IN  IF h = 0 THEN [imc |-> cs, sent |-> sent, ret |-> 0]
        ELSE IF dwAction = "NI_CONTEXTUPDATED" /\ dwValue = "IMC_SETOPENSTATUS"
        THEN LET changed == lpIMC.fOpen # myPrivate.bInternalState /\ myPrivate.bInComposition
             IN  [imc |-> [cs EXCEPT ![h].hPrivate =
                              [bInComposition |-> IF changed /\ ~lpIMC.fOpen THEN FALSE
                                                  ELSE myPrivate.bInComposition,
                               bInternalState |-> lpIMC.fOpen,
                               repeat |-> myPrivate.repeat]],
                  sent |-> IF ~changed THEN sent
                           ELSE IF ~lpIMC.fOpen
                           THEN GenerateIMEMessage(sent, hIMC, "WM_IME_ENDCOMPOSITION", 0, {})
                           ELSE GenerateIMEMessage(
                                    GenerateIMEMessage(sent, hIMC, "WM_IME_STARTCOMPOSITION", 0, {}),
                                    hIMC, "WM_IME_COMPOSITION", 0, {}),
                  ret |-> 1]
        ELSE IF dwAction = "NI_COMPOSITIONSTR" /\ dwIndex = "CPS_COMPLETE"
        THEN LET cleared == updateResultStr(lpIMC.hCompStr, <<>>)
                 cpstr == cleared.CompStr
                 s1 == IF Len(cpstr) > 0
                       THEN GenerateIMEMessage(
                                GenerateIMEMessage(sent, hIMC, "WM_IME_COMPOSITION", 0,
                                                   {"GCS_COMPSTR"}),
                                hIMC, "WM_IME_COMPOSITION", cpstr[1],
                                {"GCS_RESULTSTR", "GCS_RESULTCLAUSE"})
                       ELSE sent
             IN  [imc |-> [cs EXCEPT
                              ![h].hCompStr = IF Len(cpstr) > 0
                                              THEN updateCompStr(updateResultStr(cleared, cpstr), <<>>)
                                              ELSE cleared,
                              ![h].hPrivate.bInComposition = FALSE],
                  sent |-> GenerateIMEMessage(s1, hIMC, "WM_IME_ENDCOMPOSITION", 0, {}),
                  ret |-> 1]
        ELSE IF dwAction = "NI_COMPOSITIONSTR" /\ dwIndex = "CPS_CANCEL"
        THEN [imc |-> [cs EXCEPT ![h].hCompStr = BlankCompStr,
                                 ![h].hPrivate.bInComposition = FALSE],
              sent |-> IF myPrivate.bInComposition
                       THEN GenerateIMEMessage(sent, hIMC, "WM_IME_ENDCOMPOSITION", 0, {})
                       ELSE sent,
              ret |-> 1]
        ELSE [imc |-> cs, sent |-> sent, ret |-> 0]

\* NotifyIME (ime.c:758)
NotifyIME(hIMC, dwAction, dwIndex, dwValue) ==
    /\ pc = "run"
    /\ imc' = notify(imc, hIMC, dwAction, dwIndex, dwValue).imc
    /\ sent' = notify(imc, hIMC, dwAction, dwIndex, dwValue).sent
    /\ \A c \in Contexts : Len(sent'[c]) <= MaxSent
    /\ call' = [fn |-> "NotifyIME", a |-> hIMC, b |-> 0,
                ret |-> notify(imc, hIMC, dwAction, dwIndex, dwValue).ret]
    /\ UNCHANGED <<imgvars, PE_nt_headers, symvars, dumpvars, pc, out,
                   hSelectedFrom, hSelectedCount, focus, selected, lpdwTransKey>>

\* imm32's ImmSetOpenStatus: it sets fOpen of the context and notifies the input
\* method with NI_CONTEXTUPDATED, IMC_SETOPENSTATUS
ImmSetOpenStatus(hIMC, fOpen) ==
    LET r == notify([imc EXCEPT ![hIMC].fOpen = fOpen], hIMC, "NI_CONTEXTUPDATED", "",
                    "IMC_SETOPENSTATUS")
    IN  /\ pc = "run"
        /\ imc[hIMC].fOpen # fOpen
        /\ imc' = r.imc
        /\ sent' = r.sent
        /\ \A c \in Contexts : Len(sent'[c]) <= MaxSent
        /\ call' = [fn |-> "NotifyIME", a |-> hIMC, b |-> 0, ret |-> r.ret]
        /\ UNCHANGED <<imgvars, PE_nt_headers, symvars, dumpvars, pc, out,
                       hSelectedFrom, hSelectedCount, focus, selected, lpdwTransKey>>

\* ImeToAsciiEx (ime.c:703) with a translation buffer of size messages; rc is what
\* macdrv_process_text_input answers.  Without a context LockRealIMC returns NULL,
\* which is dereferenced at ime.c:724.
ImeToAsciiEx(uVKey, uScanCode, size, hIMC, rc) ==
    LET vkey == LOWORD(uVKey)
        h == RealIMC(hIMC)
        msg == IF (uScanCode \div 32768) % 2 = 1 THEN "WM_KEYUP" ELSE "WM_KEYDOWN"
        stored == GenerateMessageToTransKey([size |-> size, msgs |-> <<>>], 0, msg, vkey,
                                            MAKELONG(1, uScanCode))
        this == [fn |-> "ImeToAsciiEx", a |-> hIMC, b |-> 0, uVKey |-> uVKey,
                 uScanCode |-> uScanCode, rc |-> rc]
    IN  /\ pc = "run"
        /\ UNCHANGED <<imgvars, PE_nt_headers, symvars, dumpvars, out,
                       hSelectedFrom, hSelectedCount, focus, imc, selected>>
        /\ IF vkey \in {"VK_KANA", "VK_KANJI", "VK_MENU"}
           THEN /\ call' = this @@ [ret |-> 0]
                /\ lpdwTransKey' = [size |-> size, msgs |-> <<>>]
                /\ UNCHANGED <<pc, sent>>
           ELSE IF h = 0
           THEN /\ pc' = "crashed"
                /\ call' = this @@ [ret |-> NULL]
                /\ lpdwTransKey' = [size |-> size, msgs |-> <<>>]
                /\ UNCHANGED sent
           ELSE IF ~imc[h].hPrivate.bInternalState \/ rc # 0
           THEN /\ call' = this @@ [ret |-> 0]
                /\ lpdwTransKey' = [size |-> size, msgs |-> <<>>]
                /\ UNCHANGED <<pc, sent>>
           ELSE /\ call' = this @@ [ret |-> stored.uNumTranMsgs]
                /\ lpdwTransKey' = stored.buf
                /\ sent' = IF stored.ret = 0
                           THEN GenerateIMEMessage(sent, hIMC, msg, vkey, MAKELONG(1, uScanCode))
                           ELSE sent
                /\ \A c \in Contexts : Len(sent'[c]) <= MaxSent
                /\ UNCHANGED pc

\* the focus moves to the window of another context, or of none
SetFocus(h) ==
    /\ pc = "run"
    /\ focus # h
    /\ focus' = h
    /\ UNCHANGED <<imgvars, PE_nt_headers, call, symvars, dumpvars, pc, out,
                   hSelectedFrom, hSelectedCount, imc, sent, selected, lpdwTransKey>>

InitIme ==
    /\ ulong_mod = DwordMod
    /\ dump_total_len = 0
    /\ mem = <<>>
    /\ strs = <<>>
    /\ PE_nt_headers = NULL
    /\ call = NoCall
    /\ Idle

\* the calls imm32 and the Cocoa side make for one input context: imm32 with the
\* context it has selected, Cocoa with FROM_MACDRV
Requests ==
    {<<"NI_COMPOSITIONSTR", "CPS_COMPLETE", "">>, <<"NI_COMPOSITIONSTR", "CPS_CANCEL", "">>,
     <<"NI_COMPOSITIONSTR", "CPS_CONVERT", "">>, <<"NI_CONTEXTUPDATED", "", "IMC_SETOPENSTATUS">>}
NextIme ==
    \/ \E fSelect \in {0, 1} : ImeSelect(1, fSelect)
    \/ \E h \in {0, 1} : SetFocus(h)
    \/ \E hIMC \in selected \cup {FROM_MACDRV}, dwIndex \in {"SCS_SETSTR", "SCS_CHANGEATTR"},
          lpComp \in {<<>>, <<97>>} :
          ImeSetCompositionString(hIMC, dwIndex, lpComp, 2 * Len(lpComp))
    \/ \E hIMC \in selected \cup {FROM_MACDRV}, r \in Requests : NotifyIME(hIMC, r[1], r[2], r[3])
    \/ \E hIMC \in selected, fOpen \in BOOLEAN : ImmSetOpenStatus(hIMC, fOpen)

SpecIme == InitIme /\ [][NextIme]_vars

\* the WM_IME_STARTCOMPOSITION and WM_IME_ENDCOMPOSITION messages generated for a
\* context, in order
StartEnd(h) ==
    SelectSeq(sent[h],
              LAMBDA m : m.message \in {"WM_IME_STARTCOMPOSITION", "WM_IME_ENDCOMPOSITION"})

\* C27: in the messages generated for one input context WM_IME_STARTCOMPOSITION
\* and WM_IME_ENDCOMPOSITION alternate, beginning with a START: no END without an
\* open START before it, no START while a composition is open.
ClaimC27 ==
    \A h \in Contexts :
        \A k \in DOMAIN StartEnd(h) :
            StartEnd(h)[k].message = IF k % 2 = 1 THEN "WM_IME_STARTCOMPOSITION"
                                     ELSE "WM_IME_ENDCOMPOSITION"

\* C28: after every call on a selected context, bInComposition is TRUE exactly
\* when the latest of the START and END messages generated for the context is a
\* START.
ClaimC28 ==
    \A h \in selected :
        imc[h].hPrivate.bInComposition
            <=> /\ StartEnd(h) # <<>>
                /\ StartEnd(h)[Len(StartEnd(h))].message = "WM_IME_STARTCOMPOSITION"

\* the selections imm32 makes, the end of the input method, and the focus
NextImeSelect ==
    \/ \E hIMC \in Contexts \cup {0, FROM_MACDRV}, fSelect \in {0, 1} : ImeSelect(hIMC, fSelect)
    \/ ImeDestroy
    \/ \E h \in Contexts \cup {0} : SetFocus(h)

SpecImeSelect == InitIme /\ [][NextImeSelect]_vars

\* C29: after every call, hSelectedCount is the number of entries of hSelectedFrom
\* and is not negative, and RealIMC(FROM_MACDRV) is the focus window's context if
\* that context was selected and not since deselected or cleared by ImeDestroy,
\* and NULL if not; a call ImeSelect(h, FALSE) returns TRUE exactly when h was
\* selected.
ClaimC29 ==
    [][/\ hSelectedCount' = Len(hSelectedFrom')
       /\ hSelectedCount' >= 0
       /\ (IF focus' \in selected' THEN focus' ELSE 0)
              = (IF \E i \in 1 .. hSelectedCount' : hSelectedFrom'[i] = focus' THEN focus' ELSE 0)
       /\ (focus' = focus /\ call'.fn = "ImeSelect" /\ call'.b = 0 /\ call'.a \in Contexts)
              => (call'.ret = 1 <=> call'.a \in selected)]_vars

\* keys for a context that is selected, or for the focus window's
Keys == {<<0, "VK_KANA">>, <<0, "VK_KANJI">>, <<0, "VK_MENU">>, <<7, "VK_SPACE">>}
NextImeKey ==
    \/ (selected = {} /\ ImeSelect(1, 1))
    \/ \E h \in {0, 1} : SetFocus(h)
    \/ \E hIMC \in selected, fOpen \in BOOLEAN : ImmSetOpenStatus(hIMC, fOpen)
    \/ \E uVKey \in Keys, uScanCode \in {57, 32768 + 57}, size \in 0 .. 2,
          hIMC \in selected \cup {FROM_MACDRV}, rc \in {0, 1} :
          ImeToAsciiEx(uVKey, uScanCode, size, hIMC, rc)

SpecImeKey == InitIme /\ [][NextImeKey]_vars

\* the message ImeToAsciiEx rebuilds from the key of the last call
Rebuilt ==
    TRANSMSG(IF (call.uScanCode \div 32768) % 2 = 1 THEN "WM_KEYUP" ELSE "WM_KEYDOWN",
             call.uVKey[2], <<1, call.uScanCode>>)

\* C30: a call of ImeToAsciiEx for a key that the active input method did not
\* process delivers the rebuilt key message once and by one route: into the
\* translation buffer if that has room for a message, returning 1, and if not, as
\* a generated message, returning 0; it stores nothing at or beyond the buffer's
\* size.  For VK_KANA, VK_KANJI, VK_MENU and without an active input method it
\* returns 0 and delivers nothing.
ClaimC30 ==
    [][(focus' = focus /\ pc' = "run" /\ call'.fn = "ImeToAsciiEx")
       => LET h == RealIMC(call'.a)
          IN  /\ Len(lpdwTransKey'.msgs) <= lpdwTransKey'.size
              /\ IF \/ call'.uVKey[2] \in {"VK_KANA", "VK_KANJI", "VK_MENU"}
                    \/ ~imc[h].hPrivate.bInternalState
                 THEN call'.ret = 0 /\ lpdwTransKey'.msgs = <<>> /\ sent' = sent
                 ELSE call'.rc = 0 =>
                        IF lpdwTransKey'.size >= 1
                        THEN /\ call'.ret = 1
                             /\ lpdwTransKey'.msgs = <<Rebuilt'>>
                             /\ sent' = sent
                        ELSE /\ call'.ret = 0
                             /\ lpdwTransKey'.msgs = <<>>
                             /\ sent' = [sent EXCEPT ![h] = Append(@, Rebuilt')]]_vars

====
